---- MODULE Spec2Model ----
(***************************************************************************)
(* Model of mcper: the WASM module host (pkg/wasmhost), the integrity      *)
(* cache (pkg/mcper/cache.go), the plugin source parser                    *)
(* (pkg/mcper/plugin.go), the aggregating server (cmd/mcper serve) and     *)
(* the bridge to the browser extension (cmd/chrome-bridge).                *)
(*                                                                         *)
(* Strings are sequences of tokens.  A token is an atomic piece of text:   *)
(* the separators "/", ".", "@" and the words the code looks for           *)
(* ("plugin-", ".wasm", "https:", ...).  Prefix, suffix, base-name and     *)
(* formatting operations work on these sequences the way the Go code       *)
(* works on bytes.                                                         *)
(***************************************************************************)
EXTENDS Integers, Sequences, FiniteSets, TLC

\* ------------------------------------------------------------------ bounds

\* Longest plugin list of a configuration (config.Plugins before cloud servers).
MaxPlugins == 2
\* Most remote servers mcper-cloud returns from FetchRemoteServers.
MaxRemote == 1
\* Most tool calls made on the running server in one behaviour.
MaxCalls == 1
\* Most operations a client makes on a WasmHost in one behaviour.
MaxHostOps == 4
\* Most operations a client makes on the cache in one behaviour.
MaxCacheOps == 3
\* Most calls forwarded to sandbox sessions in one behaviour.
MaxFwd == 2
\* Goroutines calling Bridge.sendCommand at the same time (HTTP handlers).
MaxCallers == 2
\* Most requests the bridge issues in one behaviour.
MaxRequests == 2
\* Most messages the bridge reader reads from the extension in one behaviour.
MaxIncoming == 2
\* Most frames on the stream the bridge reader reads in one behaviour.
MaxFrames == 2
\* Longest middle part of a plugin source string given to ParsePluginSource.
MaxMiddle == 2

\* ------------------------------------------------------------------ strings

None == "none"

HasPrefix(s, p) == Len(s) >= Len(p) /\ SubSeq(s, 1, Len(p)) = p

HasSuffix(s, p) == Len(s) >= Len(p) /\ SubSeq(s, Len(s) - Len(p) + 1, Len(s)) = p

TrimPrefix(s, p) == IF HasPrefix(s, p) THEN SubSeq(s, Len(p) + 1, Len(s)) ELSE s

TrimSuffix(s, p) == IF HasSuffix(s, p) THEN SubSeq(s, 1, Len(s) - Len(p)) ELSE s

\* Index of the last occurrence of token c in s, 0 when there is none.
LastIndex(s, c) ==
    LET hits == {i \in 1..Len(s) : s[i] = c}
    IN IF hits = {} THEN 0 ELSE CHOOSE i \in hits : \A j \in hits : j <= i

\* Index of the first occurrence of token c in s at or after position from,
\* 0 when there is none.
IndexFrom(s, c, from) ==
    LET hits == {i \in from..Len(s) : s[i] = c}
    IN IF hits = {} THEN 0 ELSE CHOOSE i \in hits : \A j \in hits : i <= j

RECURSIVE StripTrailingSlashes(_)
StripTrailingSlashes(s) ==
    IF s # <<>> /\ s[Len(s)] = "/" THEN StripTrailingSlashes(SubSeq(s, 1, Len(s) - 1))
    ELSE s

\* filepath.Base: the last element of the path, trailing separators removed;
\* "." for the empty path and "/" for a path of separators only.
Base(s) ==
    IF s = <<>> THEN <<".">>
    ELSE LET t == StripTrailingSlashes(s)
         IN IF t = <<>> THEN <<"/">>
            ELSE SubSeq(t, LastIndex(t, "/") + 1, Len(t))

\* fmt.Sprintf("plugin-%d", i) for the loop index i (0-based in the code,
\* the model's plugin positions are 1-based).
InstanceName(i) == <<"plugin-", ToString(i - 1)>>

\* ------------------------------------------------------------------ plugin.go

GCSBaseURL == <<"https:", "/", "/", "storage.googleapis.com", "/", "mcper-releases">>

PluginTypeWASM == "WASM"
PluginTypeLocal == "Local"
PluginTypeHTTP == "HTTP"

\* pluginURLPattern:
\*   ^https://storage\.googleapis\.com/mcper-releases/([^/]+)/plugin-([^/]+)\.wasm$
\* The match, as [ok, version, name].
PluginURLMatch(s) ==
    LET pre   == GCSBaseURL \o <<"/">>
        vs    == Len(pre) + 1
        slash == IndexFrom(s, "/", vs)
        ns    == slash + 2
    IN IF /\ HasPrefix(s, pre)
          /\ slash > vs
          /\ Len(s) >= ns + 1
          /\ s[slash + 1] = "plugin-"
          /\ s[Len(s)] = ".wasm"
          /\ \A i \in ns..(Len(s) - 1) : s[i] # "/"
       THEN [ok |-> TRUE, version |-> SubSeq(s, vs, slash - 1),
             name |-> SubSeq(s, ns, Len(s) - 1)]
       ELSE [ok |-> FALSE, version |-> <<>>, name |-> <<>>]

Schemes == {"http:", "https:", "ftp:"}

\* url.Parse: [err, scheme, path].  A "%" token stands for a malformed escape,
\* which url.Parse rejects; a leading scheme token followed by "//" starts an
\* authority that runs to the next "/".
UrlParse(s) ==
    IF \E i \in 1..Len(s) : s[i] = "%"
    THEN [err |-> TRUE, scheme |-> <<>>, path |-> <<>>]
    ELSE IF Len(s) >= 1 /\ s[1] \in Schemes
         THEN LET rest == SubSeq(s, 2, Len(s))
                  p == IF HasPrefix(rest, <<"/", "/">>)
                       THEN LET k == IndexFrom(rest, "/", 3)
                            IN IF k = 0 THEN <<>> ELSE SubSeq(rest, k, Len(rest))
                       ELSE rest
              IN [err |-> FALSE, scheme |-> <<s[1]>>, path |-> p]
         ELSE [err |-> FALSE, scheme |-> <<>>, path |-> s]

\* ParsePluginSource: [err, Type, Name, Version, RawURL].
ParsePluginSource_urlfirst(source) ==
    LET u == UrlParse(source)
        m == PluginURLMatch(source)
        Failed == [err |-> TRUE, Type |-> None, Name |-> <<>>, Version |-> <<>>,
                   RawURL |-> source]
    IN IF HasPrefix(source, <<".", "/">>) \/ HasPrefix(source, <<"/">>)
       THEN [err |-> FALSE, Type |-> PluginTypeLocal, Name |-> Base(source),
             Version |-> <<>>, RawURL |-> source]
       ELSE IF ~u.err /\ u.scheme \in {<<"http:">>, <<"https:">>}
       THEN [err |-> FALSE, Type |-> PluginTypeHTTP, Name |-> u.path,
             Version |-> <<>>, RawURL |-> source]
       ELSE IF m.ok
       THEN [err |-> FALSE, Type |-> PluginTypeWASM, Name |-> m.name,
             Version |-> m.version, RawURL |-> source]
       ELSE Failed

ParsePluginSource(source) ==
    IF HasPrefix(source, <<".", "/">>) \/ HasPrefix(source, <<"/">>)
    THEN [err |-> FALSE, Type |-> PluginTypeLocal, Name |-> Base(source),
          Version |-> <<>>, RawURL |-> source]
    ELSE LET m == PluginURLMatch(source)
         IN IF m.ok
            THEN [err |-> FALSE, Type |-> PluginTypeWASM, Name |-> m.name,
                  Version |-> m.version, RawURL |-> source]
            ELSE LET u == UrlParse(source)
                 IN IF u.err
                    THEN [err |-> TRUE, Type |-> None, Name |-> <<>>,
                          Version |-> <<>>, RawURL |-> source]
                    ELSE IF u.scheme \in {<<"http:">>, <<"https:">>}
                         THEN [err |-> FALSE, Type |-> PluginTypeHTTP, Name |-> u.path,
                               Version |-> <<>>, RawURL |-> source]
                         ELSE [err |-> TRUE, Type |-> None, Name |-> <<>>,
                               Version |-> <<>>, RawURL |-> source]

\* ParsedPlugin.CachePath / MetadataPath: filepath.Join(cacheDir, "plugins",
\* name[@version] + ext); "" for a plugin that is not a registry artifact.
CacheFileName(p) ==
    IF p.Version # <<>> THEN p.Name \o <<"@">> \o p.Version ELSE p.Name

CachePath(p, cacheDir) ==
    IF p.Type # PluginTypeWASM THEN <<>>
    ELSE cacheDir \o <<"/", "plugins", "/">> \o CacheFileName(p) \o <<".wasm">>

MetadataPath(p, cacheDir) ==
    IF p.Type # PluginTypeWASM THEN <<>>
    ELSE cacheDir \o <<"/", "plugins", "/">> \o CacheFileName(p) \o <<".json">>

\* ParsedPlugin.RegistryURL
RegistryURL(p) == IF p.Type # PluginTypeWASM THEN <<>> ELSE p.RawURL

\* ------------------------------------------------------------------ wasmhost

\* Module bytes are sequences over these tokens; "m" stands for the WASM
\* header that wazero's CompileModule validates.
ByteTokens == {"m", "a", "b"}

\* runtime.CompileModule: [err, module].  The compiled module is determined by
\* the bytes it was compiled from.
CompileModule(wasmBytes) ==
    IF wasmBytes # <<>> /\ wasmBytes[1] = "m"
    THEN [err |-> FALSE, module |-> [code |-> wasmBytes]]
    ELSE [err |-> TRUE, module |-> [nil |-> TRUE]]

\* WasmHost.LoadModule on cache c: [err, cache].
LoadModule_replace(c, name, wasmBytes) ==
    LET cm == CompileModule(wasmBytes)
    IN IF cm.err THEN [err |-> "compile", cache |-> c]
       ELSE [err |-> None,
             cache |-> [n \in DOMAIN c \cup {name} |->
                           IF n = name THEN cm.module ELSE c[n]]]

LoadModule(c, name, wasmBytes) ==
    IF name \in DOMAIN c
    THEN [err |-> "already loaded", cache |-> c]
    ELSE LET cm == CompileModule(wasmBytes)
         IN IF cm.err THEN [err |-> "compile", cache |-> c]
            ELSE [err |-> None,
                  cache |-> [n \in DOMAIN c \cup {name} |->
                                IF n = name THEN cm.module ELSE c[n]]]

\* What the operating system and the WASI libraries answer during one run
\* of RunModuleWithLogging / RunModule.
RunOutcomes == {"ok", "stdinPipeFail", "stdoutPipeFail", "wasiFail", "wasiHTTPFail"}

\* WasmHost.RunModuleWithLogging and WasmHost.RunModule on cache c with the
\* environment answering io: [err, pipes, started].  pipes is the number of
\* os.Pipe pairs created, started whether the goroutine that instantiates
\* the module was started (a sandbox session with its background task).
RunModule_nocheck(c, name, io) ==
    CASE io = "stdinPipeFail"  -> [err |-> "stdin pipe", pipes |-> 0, started |-> FALSE]
      [] io = "stdoutPipeFail" -> [err |-> "stdout pipe", pipes |-> 1, started |-> FALSE]
      [] io = "wasiFail"       -> [err |-> "wasi", pipes |-> 2, started |-> FALSE]
      [] io = "wasiHTTPFail"   -> [err |-> "wasi http", pipes |-> 2, started |-> FALSE]
      [] OTHER                 -> [err |-> None, pipes |-> 2, started |-> TRUE]

RunModule(c, name, io) ==
    IF name \notin DOMAIN c
    THEN [err |-> "not found", pipes |-> 0, started |-> FALSE]
    ELSE CASE io = "stdinPipeFail"  -> [err |-> "stdin pipe", pipes |-> 0, started |-> FALSE]
           [] io = "stdoutPipeFail" -> [err |-> "stdout pipe", pipes |-> 1, started |-> FALSE]
           [] io = "wasiFail"       -> [err |-> "wasi", pipes |-> 2, started |-> FALSE]
           [] io = "wasiHTTPFail"   -> [err |-> "wasi http", pipes |-> 2, started |-> FALSE]
           [] OTHER                 -> [err |-> None, pipes |-> 2, started |-> TRUE]

\* ------------------------------------------------------------------ cache.go

\* DefaultCacheDir: ~/.mcper/cache
CacheDir == <<"~", "/", ".mcper", "/", "cache">>

\* sha256.Sum256 + hex.EncodeToString, idealised as a collision-free digest:
\* the bytes read as a bijective base-4 numeral.
ByteCode(b) == CASE b = "m" -> 1 [] b = "a" -> 2 [] OTHER -> 3

RECURSIVE Sum256(_)
Sum256(data) ==
    IF data = <<>> THEN 0
    ELSE Sum256(SubSeq(data, 1, Len(data) - 1)) * 4 + ByteCode(data[Len(data)])

\* A file system is a function from paths to files.  A file is [bytes |-> b]
\* (binary content, which json.Unmarshal rejects) or [json |-> m] (the JSON
\* text of the CacheMetadata m).
BinFile(b) == [bytes |-> b]

JsonFile(m) == [json |-> m]

IsJson(f) == "json" \in DOMAIN f

NilMetadata == [nil |-> TRUE]

NilEntry == [nil |-> TRUE]

WriteFile(d, path, content) ==
    [q \in DOMAIN d \cup {path} |-> IF q = path THEN content ELSE d[q]]

\* GetCacheEntry on disk d: [err, entry]; entry is NilEntry when not cached,
\* else [WASMPath, MetadataPath, Metadata] with Metadata NilMetadata when the
\* metadata file is missing or does not parse.  homeOK: os.UserHomeDir works.
GetCacheEntry_miss(d, plugin, homeOK) ==
    [err |-> ~homeOK, entry |-> NilEntry]

GetCacheEntry(d, plugin, homeOK) ==
    IF ~homeOK THEN [err |-> TRUE, entry |-> NilEntry]
    ELSE LET wasmPath == CachePath(plugin, CacheDir)
             metadataPath == MetadataPath(plugin, CacheDir)
         IN IF wasmPath \notin DOMAIN d THEN [err |-> FALSE, entry |-> NilEntry]
            ELSE [err |-> FALSE,
                  entry |-> [WASMPath |-> wasmPath, MetadataPath |-> metadataPath,
                             Metadata |-> IF metadataPath \in DOMAIN d
                                             /\ IsJson(d[metadataPath])
                                          THEN d[metadataPath].json
                                          ELSE NilMetadata]]

\* What the file system answers during one SaveToCache.
SaveOutcomes == {"ok", "mkdirFail", "wasmWriteFail", "metaWriteFail"}

\* SaveToCache on disk d: [err, entry, disk].  A failed os.WriteFile leaves
\* the file cut to the first `cut` bytes of what was being written (a cut
\* metadata file no longer parses).
SaveToCache(d, plugin, wasmData, io, cut) ==
    LET wasmPath == CachePath(plugin, CacheDir)
        metadataPath == MetadataPath(plugin, CacheDir)
        metadata == [Source |-> plugin.RawURL, SHA256 |-> Sum256(wasmData),
                     Size |-> Len(wasmData)]
        d1 == WriteFile(d, wasmPath, BinFile(wasmData))
    IN CASE io = "mkdirFail" -> [err |-> TRUE, entry |-> NilEntry, disk |-> d]
         [] io = "wasmWriteFail" ->
              [err |-> TRUE, entry |-> NilEntry,
               disk |-> WriteFile(d, wasmPath, BinFile(SubSeq(wasmData, 1, cut)))]
         [] io = "metaWriteFail" ->
              [err |-> TRUE, entry |-> NilEntry,
               disk |-> WriteFile(d1, metadataPath, BinFile(<<>>))]
         [] OTHER ->
              [err |-> FALSE,
               entry |-> [WASMPath |-> wasmPath, MetadataPath |-> metadataPath,
                          Metadata |-> metadata],
               disk |-> WriteFile(d1, metadataPath, JsonFile(metadata))]

\* VerifyCache on disk d: [valid, err].
VerifyCache_sizeonly(d, entry) ==
    IF entry.Metadata = NilMetadata THEN [valid |-> FALSE, err |-> FALSE]
    ELSE IF entry.WASMPath \notin DOMAIN d THEN [valid |-> FALSE, err |-> TRUE]
         ELSE [valid |-> Len(d[entry.WASMPath].bytes) = entry.Metadata.Size,
               err |-> FALSE]

VerifyCache_nometa(d, entry) ==
    IF entry.Metadata = NilMetadata THEN [valid |-> TRUE, err |-> FALSE]
    ELSE IF entry.WASMPath \notin DOMAIN d THEN [valid |-> FALSE, err |-> TRUE]
         ELSE [valid |-> Sum256(d[entry.WASMPath].bytes) = entry.Metadata.SHA256,
               err |-> FALSE]

VerifyCache_mismatcherr(d, entry) ==
    IF entry.Metadata = NilMetadata THEN [valid |-> FALSE, err |-> FALSE]
    ELSE IF entry.WASMPath \notin DOMAIN d THEN [valid |-> FALSE, err |-> TRUE]
         ELSE [valid |-> Sum256(d[entry.WASMPath].bytes) = entry.Metadata.SHA256,
               err |-> Sum256(d[entry.WASMPath].bytes) # entry.Metadata.SHA256]

\* A VerifyCache that accepts whatever the lookup found.
VerifyCache_accept(d, entry) == [valid |-> TRUE, err |-> FALSE]

VerifyCache(d, entry) ==
    IF entry.Metadata = NilMetadata THEN [valid |-> FALSE, err |-> FALSE]
    ELSE IF entry.WASMPath \notin DOMAIN d THEN [valid |-> FALSE, err |-> TRUE]
         ELSE [valid |-> Sum256(d[entry.WASMPath].bytes) = entry.Metadata.SHA256,
               err |-> FALSE]

\* ------------------------------------------------------------------ state

VARIABLES
    \* WasmHost (pkg/wasmhost)
    hostCache,      \* WasmHost.cache: instance name -> compiled module
    hostPipes,      \* number of os.Pipe pairs the host has created
    hostSessions,   \* running module instances, in start order: [name, task]
    hostClosed,     \* the wazero runtime has been closed
    hostRes,        \* what the last WasmHost call was, found and returned
    hostOps,        \* number of WasmHost calls made by the host's client
    \* integrity cache (pkg/mcper/cache.go)
    disk,           \* the file system under ~/.mcper/cache: path -> file
    held,           \* the CacheEntry the cache's client holds
    heldData,       \* where that entry came from, and the bytes stored with it
    cacheRes,       \* what the last cache call was, found and returned
    cacheOps,       \* number of cache calls made by the cache's client
    \* mcper serve (cmd/mcper)
    phase,          \* "start" | "loading" | "serving" | "failed" | "stopped"
    creds,          \* "none" | "valid" | "expired": ~/.mcper credentials
    config,         \* config.Plugins: sequence of [Source, IsCloud]
    idx,            \* position in config.Plugins of the plugin being set up
    stage,          \* where runServe is in the setup of that plugin
    wasmBytes,      \* the bytes read or downloaded for that plugin
    entry,          \* loadRemoteWASM's cache entry for that plugin
    catalog,        \* backend -> the tools its ListTools returned
    tools,          \* the server's tool set: registered name -> handler
    regLog,         \* every server.AddTool call so far: [name, backend, tool]
    sessions,       \* runServe's sessions map: instance name -> backend
    rpcOpen,        \* backends whose client session is connected and open
    bstate,         \* backend -> its setup state
    failure,        \* the startup error runServe returned: [backend, stage]
    errors,         \* every error a setup step met: [backend, stage]
    fetchLog,       \* every http.Get of a registry URL so far: [url, backend]
    calls,          \* number of tool calls the server has handled
    lastCall        \* the last tool call: what came in, went out, came back

hostVars == <<hostCache, hostPipes, hostSessions, hostClosed>>

hostClient == <<hostRes, hostOps>>

cacheVars == <<disk>>

cacheClient == <<held, heldData, cacheRes, cacheOps>>

serveVars == <<phase, creds, config, idx, stage, wasmBytes, entry, catalog, tools,
               regLog, sessions, rpcOpen, bstate, failure, errors, fetchLog,
               calls, lastCall>>

VARIABLES
    \* calls forwarded to sandbox sessions (handlers of runWASMModule)
    fwd,            \* forwarded CallTool requests, in order: [sess, state]
    pipeW           \* sessions whose stdout pipe has no open write end left

sessVars == <<fwd, pipeW>>

VARIABLES
    \* cmd/chrome-bridge: Bridge
    pendingRequests, \* Bridge.pendingRequests: id -> buffer of its chan Message
    requestID,       \* Bridge.requestID
    callers,         \* each sendCommand goroutine: [pc, id, res]
    wire,            \* what has been written to nativeWriter, one entry a Write
    rdr,             \* the readNativeMessages goroutine: [pc, msg], msg the last read
    inSeq            \* messages read from nativeReader so far

bridgeVars == <<pendingRequests, requestID, callers, wire, rdr, inSeq>>

VARIABLES
    \* cmd/chrome-bridge: the framed stream, byte by byte
    stream,         \* the frames written to the stream the reader reads
    inClosed,       \* whether the writing side has closed the stream
    frd,            \* readNativeMessages: [pos, pc], pos the bytes consumed
    decoded         \* the messages it parsed: [msg, at, used]

frameVars == <<stream, inClosed, frd, decoded>>

VARIABLES
    \* a caller of ParsePluginSource
    psrc,           \* the source string it has
    pres            \* what ParsePluginSource returned for it

parseVars == <<psrc, pres>>

VARIABLES
    \* a caller of the credentials functions, and of PluginURL
    credsIn,        \* the *Credentials it holds: NilCreds or a Credentials value
    credFile,       \* the text of the credentials file, NoFile if there is none
    saveOK,         \* the last SaveCredentialsToPath returned nil
    loaded,         \* what LoadCredentialsFromPath returned: [called, err, creds]
    now,            \* time.Now(), in minutes
    isValid,        \* what IsValid returned: [called, valid, at]
    urlCalls        \* the calls of PluginURL so far: [name, version, url]

utilVars == <<credsIn, credFile, saveOK, loaded, now, isValid, urlCalls>>

\* The variables of the components added after the serve command's.
extVars == <<sessVars, bridgeVars, frameVars, parseVars, utilVars>>

vars == <<hostVars, hostClient, cacheVars, cacheClient, serveVars, extVars>>

EmptyMap == [x \in {} |-> x]

NoRes == [op |-> None]

NoFailure == [backend |-> 0, stage |-> None]

NoCall == [name |-> <<>>]

\* No call has been forwarded and no pipe end has been closed.
InitSessIdle ==
    /\ fwd = <<>>
    /\ pipeW = {}

Callers == 1..MaxCallers

\* Message{}: the zero message, and the id of no message.
NoID == <<>>

NoMsg == [id |-> NoID, seq |-> 0]

NoResult == [kind |-> "none", msg |-> NoMsg]

\* NewBridge: an empty table and no call yet, with the reader goroutine
\* at r: "read" once started (go bridge.readNativeMessages()), "off" if not.
InitBridge(r) ==
    /\ pendingRequests = <<>>
    /\ requestID = 0
    /\ callers = [c \in Callers |-> [pc |-> "idle", id |-> NoID, res |-> NoResult]]
    /\ wire = <<>>
    /\ rdr = [pc |-> r, msg |-> NoMsg]
    /\ inSeq = 0

\* An empty stream with the reader at its start.
InitFrame ==
    /\ stream = <<>>
    /\ inClosed = FALSE
    /\ frd = [pos |-> 0, pc |-> "run"]
    /\ decoded = <<>>

\* The result of no call of ParsePluginSource.
NotParsed ==
    [err |-> FALSE, Type |-> "unparsed", Name |-> <<>>, Version |-> <<>>, RawURL |-> <<>>]

\* A caller with source s that has not called yet.
InitParse(s) ==
    /\ psrc = s
    /\ pres = NotParsed

\* A nil *Credentials, the zero Credentials, and no credentials file.
NilCreds == [nil |-> TRUE]

ZeroCreds ==
    [APIKey |-> <<>>, UserEmail |-> <<>>, UserID |-> <<>>, CloudURL |-> <<>>,
     ExpiresAt |-> 0]

NoFile == [kind |-> "absent"]

NotLoaded == [called |-> FALSE, err |-> None, creds |-> NilCreds]

NotAsked == [called |-> FALSE, valid |-> FALSE, at |-> 0]

\* A caller holding credentials c at time t with file f, before any call.
InitUtil(c, f, t) ==
    /\ credsIn = c
    /\ credFile = f
    /\ saveOK = FALSE
    /\ loaded = NotLoaded
    /\ now = t
    /\ isValid = NotAsked
    /\ urlCalls = <<>>

InitUtilIdle == InitUtil(NilCreds, NoFile, 1)

InitExtIdle ==
    InitSessIdle /\ InitBridge("off") /\ InitFrame /\ InitParse(<<>>) /\ InitUtilIdle

\* NewLoggingWasmHost: an empty module cache on a fresh runtime.
InitHost ==
    /\ hostCache = EmptyMap
    /\ hostPipes = 0
    /\ hostSessions = <<>>
    /\ hostClosed = FALSE
    /\ hostRes = NoRes
    /\ hostOps = 0

NoData == [from |-> None, bytes |-> <<>>]

InitCacheClient ==
    /\ held = NilEntry
    /\ heldData = NoData
    /\ cacheRes = NoRes
    /\ cacheOps = 0

\* runServe before it has read its configuration.
InitServeIdle ==
    /\ phase = "start"
    /\ creds = "none"
    /\ config = <<>>
    /\ idx = 1
    /\ stage = "parse"
    /\ wasmBytes = <<>>
    /\ entry = NilEntry
    /\ catalog = EmptyMap
    /\ tools = EmptyMap
    /\ regLog = <<>>
    /\ sessions = EmptyMap
    /\ rpcOpen = {}
    /\ bstate = EmptyMap
    /\ failure = NoFailure
    /\ errors = {}
    /\ fetchLog = <<>>
    /\ calls = 0
    /\ lastCall = NoCall

\* ------------------------------------------------------------------ inputs

\* Plugin source strings a configuration may name.
LocalA == <<".", "/", "a", "/", "plugin-", "hello", ".wasm">>

LocalB == <<".", "/", "b", "/", "plugin-", "hello", ".wasm">>

RegistryV1 == GCSBaseURL \o <<"/", "v1", "/", "plugin-", "hello", ".wasm">>

RegistryLatest == GCSBaseURL \o <<"/", "latest", "/", "plugin-", "hello", ".wasm">>

HttpLocal == <<"http:", "/", "/", "localhost", "/", "mcp">>

FtpSource == <<"ftp:", "/", "/", "host", "/", "x">>

\* ------------------------------------------------------------------ SpecHost
\* A WasmHost driven by an arbitrary client.

HostNames == {InstanceName(1), InstanceName(2)}

HostPayloads == {<<"m">>, <<"m", "a">>, <<"a">>}

\* A background task is running, has ended with a non-zero exit code (which
\* is logged as such), or has ended any other way.
TaskStates == {"running", "exitN", "ended"}

\* RunModuleWithLogging: `go func() { ... InstantiateModule ... }()`, the one
\* background task a successful run starts for the instance.
StartTask_twice(ss, name) ==
    ss \o <<[name |-> name, task |-> "running"], [name |-> name, task |-> "running"]>>

StartTask(ss, name) == Append(ss, [name |-> name, task |-> "running"])

\* The state of the host after a run that answered r.
AfterRun(r, name) ==
    /\ hostPipes' = hostPipes + r.pipes
    /\ hostSessions' = IF r.started THEN StartTask(hostSessions, name) ELSE hostSessions

HostRecord(op, name, arg, err) ==
    [op |-> op, name |-> name, arg |-> arg, err |-> err,
     had |-> name \in DOMAIN hostCache,
     prevCache |-> hostCache, prevPipes |-> hostPipes,
     prevSessions |-> hostSessions]

\* client: host.LoadModule(ctx, name, wasmBytes)
HostLoadModule ==
    /\ hostOps < MaxHostOps /\ ~hostClosed
    /\ \E name \in HostNames, b \in HostPayloads :
         LET r == LoadModule(hostCache, name, b)
         IN /\ hostCache' = r.cache
            /\ hostRes' = HostRecord("load", name, b, r.err)
    /\ hostOps' = hostOps + 1
    /\ UNCHANGED <<hostPipes, hostSessions, hostClosed, cacheVars, cacheClient, serveVars>>
    /\ UNCHANGED extVars

\* client: host.RunModuleWithLogging(ctx, name, envVars...)
HostRunModuleWithLogging ==
    /\ hostOps < MaxHostOps /\ ~hostClosed
    /\ \E name \in HostNames, io \in RunOutcomes :
         LET r == RunModule(hostCache, name, io)
         IN /\ AfterRun(r, name)
            /\ hostRes' = HostRecord("run", name, io, r.err)
    /\ hostOps' = hostOps + 1
    /\ UNCHANGED <<hostCache, hostClosed, cacheVars, cacheClient, serveVars>>
    /\ UNCHANGED extVars

\* client: host.RunModule(ctx, name)
HostRunModule ==
    /\ hostOps < MaxHostOps /\ ~hostClosed
    /\ \E name \in HostNames, io \in RunOutcomes :
         LET r == RunModule(hostCache, name, io)
         IN /\ AfterRun(r, name)
            /\ hostRes' = HostRecord("runplain", name, io, r.err)
    /\ hostOps' = hostOps + 1
    /\ UNCHANGED <<hostCache, hostClosed, cacheVars, cacheClient, serveVars>>
    /\ UNCHANGED extVars

\* The goroutine of a running instance: InstantiateModule returns, with an
\* exit code or an instantiation error, which is logged.
TaskExit ==
    /\ \E i \in 1..Len(hostSessions), how \in TaskStates \ {"running"} :
         /\ hostSessions[i].task = "running"
         /\ hostSessions' = [hostSessions EXCEPT ![i].task = how]
    /\ UNCHANGED <<hostCache, hostPipes, hostClosed, hostClient, cacheVars, cacheClient,
                   serveVars>>
    /\ UNCHANGED extVars

\* WasmHost.Close: the runtime is closed, which ends every running instance.
CloseRuntime ==
    /\ hostClosed' = TRUE
    /\ hostSessions' = [i \in 1..Len(hostSessions) |->
                          IF hostSessions[i].task = "running"
                          THEN [hostSessions[i] EXCEPT !.task = "exitN"]
                          ELSE hostSessions[i]]

HostClose ==
    /\ ~hostClosed
    /\ hostOps > 0
    /\ CloseRuntime
    /\ UNCHANGED <<hostCache, hostPipes, hostClient, cacheVars, cacheClient, serveVars>>
    /\ UNCHANGED extVars

InitHostSpec ==
    InitHost /\ disk = EmptyMap /\ InitCacheClient /\ InitServeIdle /\ InitExtIdle

NextHost ==
    \/ HostLoadModule
    \/ HostRunModuleWithLogging
    \/ HostRunModule
    \/ TaskExit
    \/ HostClose

SpecHost == InitHostSpec /\ [][NextHost]_vars

\* ------------------------------------------------------------------ SpecCache
\* The integrity cache driven by an arbitrary client, on a disk that other
\* processes may write.

Artifacts == {ParsePluginSource(RegistryV1), ParsePluginSource(RegistryLatest)}

CachePayloads == {<<>>, <<"m">>, <<"m", "a">>, <<"m", "b">>}

\* client: SaveToCache(plugin, wasmData, permissions, envVars)
CacheSave ==
    /\ cacheOps < MaxCacheOps
    /\ \E plugin \in Artifacts, b \in CachePayloads, io \in SaveOutcomes :
         \E cut \in IF io = "wasmWriteFail" THEN 0..Len(b) ELSE {0} :
            LET r == SaveToCache(disk, plugin, b, io, cut)
            IN /\ disk' = r.disk
               /\ held' = IF r.err THEN held ELSE r.entry
               /\ heldData' = IF r.err THEN heldData
                              ELSE [from |-> "store", bytes |-> b]
               /\ cacheRes' = [op |-> "save", err |-> r.err, io |-> io]
    /\ cacheOps' = cacheOps + 1
    /\ UNCHANGED <<hostVars, hostClient, serveVars>>
    /\ UNCHANGED extVars

\* client: GetCacheEntry(plugin)
CacheLookup ==
    /\ cacheOps < MaxCacheOps
    /\ \E plugin \in Artifacts, homeOK \in BOOLEAN :
         LET r == GetCacheEntry(disk, plugin, homeOK)
         IN /\ held' = IF r.err \/ r.entry = NilEntry THEN held ELSE r.entry
            /\ heldData' = IF r.err \/ r.entry = NilEntry THEN heldData
                           ELSE [from |-> "lookup", bytes |-> <<>>]
            /\ cacheRes' = [op |-> "lookup", err |-> r.err,
                            found |-> r.entry # NilEntry]
    /\ cacheOps' = cacheOps + 1
    /\ UNCHANGED <<disk, hostVars, hostClient, serveVars>>
    /\ UNCHANGED extVars

\* client: VerifyCache(entry) on the entry it holds
CacheVerify ==
    /\ cacheOps < MaxCacheOps
    /\ held # NilEntry
    /\ LET r == VerifyCache(disk, held)
       IN cacheRes' = [op |-> "verify", valid |-> r.valid, err |-> r.err,
                       from |-> heldData.from, stored |-> heldData.bytes,
                       present |-> held.WASMPath \in DOMAIN disk,
                       onDisk |-> IF held.WASMPath \in DOMAIN disk
                                  THEN disk[held.WASMPath].bytes ELSE <<>>]
    /\ cacheOps' = cacheOps + 1
    /\ UNCHANGED <<disk, held, heldData, hostVars, hostClient, serveVars>>
    /\ UNCHANGED extVars

\* Something else rewrites a cached artifact file with other bytes.
Tamper ==
    /\ cacheOps < MaxCacheOps
    /\ \E plugin \in Artifacts, b \in CachePayloads :
         LET path == CachePath(plugin, CacheDir)
         IN /\ path \in DOMAIN disk
            /\ disk[path] # BinFile(b)
            /\ disk' = WriteFile(disk, path, BinFile(b))
    /\ cacheRes' = [op |-> "tamper"]
    /\ cacheOps' = cacheOps + 1
    /\ UNCHANGED <<held, heldData, hostVars, hostClient, serveVars>>
    /\ UNCHANGED extVars

\* client: CleanCache() removes the cache directory
CacheClean ==
    /\ cacheOps < MaxCacheOps
    /\ disk # EmptyMap
    /\ disk' = EmptyMap
    /\ cacheRes' = [op |-> "clean"]
    /\ cacheOps' = cacheOps + 1
    /\ UNCHANGED <<held, heldData, hostVars, hostClient, serveVars>>
    /\ UNCHANGED extVars

InitCacheSpec ==
    InitHost /\ disk = EmptyMap /\ InitCacheClient /\ InitServeIdle /\ InitExtIdle

NextCache ==
    \/ CacheSave
    \/ CacheLookup
    \/ CacheVerify
    \/ Tamper
    \/ CacheClean

SpecCache == InitCacheSpec /\ [][NextCache]_vars

\* ------------------------------------------------------------------ serve: naming

\* fmt.Sprintf("%s/%s/%s", namespace, pluginName, tool.Name)
NamespacedName(namespace, pluginName, toolName) ==
    <<namespace, "/">> \o pluginName \o <<"/">> \o toolName

\* loadLocalWASM: the plugin name is the file name without "plugin-" and ".wasm".
LocalPluginName(plugin) ==
    TrimPrefix(TrimSuffix(Base(plugin.Source), <<".wasm">>), <<"plugin-">>)

\* loadRemoteWASM: the parsed name, or the instance name when it is empty.
RemotePluginName(parsed, name) == IF parsed.Name = <<>> THEN name ELSE parsed.Name

\* loadHTTPPlugin: the instance name.
HTTPPluginName(name) == name

\* loadCloudPlugin: the parsed name, or the instance name when the source
\* does not parse or has no name.
CloudPluginName(plugin, name) ==
    LET parsed == ParsePluginSource(plugin.Source)
    IN IF ~parsed.err /\ parsed.Name # <<>> THEN parsed.Name ELSE name

\* runWASMModule: "cloud" for a plugin marked IsCloud, else "wasm".
WASMNamespace(plugin) == IF plugin.IsCloud THEN "cloud" ELSE "wasm"

\* The name under which the tool toolName of the plugin at position i of
\* plugins is registered, by the loader that setup dispatches it to.
RegisteredName(plugins, i, toolName) ==
    LET plugin == plugins[i]
        parsed == ParsePluginSource(plugin.Source)
        name == InstanceName(i)
    IN IF plugin.IsCloud
       THEN NamespacedName("cloud", CloudPluginName(plugin, name), toolName)
       ELSE CASE parsed.Type = PluginTypeLocal ->
                   NamespacedName(WASMNamespace(plugin), LocalPluginName(plugin), toolName)
              [] parsed.Type = PluginTypeWASM ->
                   NamespacedName(WASMNamespace(plugin), RemotePluginName(parsed, name),
                                  toolName)
              [] OTHER -> NamespacedName("http", HTTPPluginName(name), toolName)

\* ------------------------------------------------------------------ serve: server

\* mcp.Server.AddTool: the tool set maps a name to one handler, so adding a
\* name that is present replaces its handler.  A handler is the closure's
\* captured session (the backend) and tool name.
AddTool(ts, name, handler) ==
    [n \in DOMAIN ts \cup {name} |-> IF n = name THEN handler ELSE ts[n]]

\* The tool registration loop of runWASMModule, loadHTTPPlugin and
\* loadCloudPlugin over the listed tools cat of backend b:
\* [tools, log] after registering every tool.
RECURSIVE RegisterTools(_, _, _, _, _)
RegisterTools(ts, log, plugins, b, cat) ==
    IF cat = <<>> THEN [tools |-> ts, log |-> log]
    ELSE LET toolName == Head(cat)
             name == RegisteredName(plugins, b, toolName)
         IN RegisterTools(AddTool(ts, name, [session |-> b, toolName |-> toolName]),
                          Append(log, [name |-> name, backend |-> b, tool |-> toolName]),
                          plugins, b, Tail(cat))

\* What a backend answers to a forwarded CallTool.
BackendOutcomes == {"ok", "errorResult", "fail"}

\* The forwarding handler installed for a tool: what it sends to which
\* session and what it returns for the backend's answer.
Handler_namespaced(h, name, args, out) ==
    [name |-> name, args |-> args, out |-> out,
     fwdSession |-> h.session, fwdTool |-> name, fwdArgs |-> args,
     isError |-> out # "ok", fault |-> FALSE]

Handler_fault(h, name, args, out) ==
    [name |-> name, args |-> args, out |-> out,
     fwdSession |-> h.session, fwdTool |-> h.toolName, fwdArgs |-> args,
     isError |-> out = "errorResult", fault |-> out = "fail"]

Handler(h, name, args, out) ==
    [name |-> name, args |-> args, out |-> out,
     fwdSession |-> h.session, fwdTool |-> h.toolName, fwdArgs |-> args,
     isError |-> IF out = "fail" THEN TRUE ELSE out = "errorResult",
     fault |-> FALSE]

\* registerNativeTools: the tools mcper itself serves (two of the six).
NativeTools ==
    {<<"mcper", "/", "native", "/", "version">>,
     <<"mcper", "/", "native", "/", "cache_list">>}

NativeToolSet == [n \in NativeTools |-> [session |-> 0, toolName |-> n]]

\* ------------------------------------------------------------------ Spec: runServe

Sources == {LocalA, LocalB, RegistryV1, HttpLocal, FtpSource}

\* URLs of the remote servers mcper-cloud may return.
RemoteServerURLs == {<<"https:", "/", "/", "cloud", "/", "srv">>}

SeqsUpTo(S, n) == UNION {[1..k -> S] : k \in 0..n}

\* Contents a local .wasm file may have, bytes the registry may serve, and
\* the bytes of the artifact a disk may already cache.
LocalFileContents == {<<"m", "a">>, <<"a">>}

RegistryContents == {<<"m", "b">>}

CachedContents == <<"m", "a">>

\* Tool lists a backend may answer ListTools with.
Catalogs == {<<<<"x">>>>, <<<<"echo">>, <<"x">>>>}

\* Arguments of a tool call.
Args == {"a1", "a2"}

\* The cache directory at startup: empty, holding RegistryV1 as stored,
\* holding RegistryV1 with an artifact file that no longer matches its hash,
\* or as an interrupted store left it.
StoredDisk ==
    SaveToCache(EmptyMap, ParsePluginSource(RegistryV1), CachedContents, "ok", 0).disk

CorruptDisk ==
    WriteFile(StoredDisk, CachePath(ParsePluginSource(RegistryV1), CacheDir),
              BinFile(<<"m">>))

\* What a run that ended in the middle of a SaveToCache of RegistryV1 left of
\* the cache directory: the artifact file cut short, or written whole with
\* the metadata file not yet written or cut short.
PartialDisks ==
    {SaveToCache(d, ParsePluginSource(RegistryV1), b, io, cut).disk :
        d \in {EmptyMap, CorruptDisk}, b \in RegistryContents,
        io \in {"wasmWriteFail", "metaWriteFail"}, cut \in 0..2}

InitDisks == {EmptyMap, StoredDisk, CorruptDisk} \cup PartialDisks

Init ==
    /\ InitHost
    /\ InitCacheClient
    /\ InitExtIdle
    /\ phase = "start"
    /\ creds \in {"none", "valid"}
    /\ config \in {[k \in DOMAIN c |-> [Source |-> c[k], IsCloud |-> FALSE]] :
                     c \in SeqsUpTo(Sources, MaxPlugins)}
    \* only a configuration that names the cached artifact reads the disk
    /\ disk \in IF \E k \in DOMAIN config : config[k].Source = RegistryV1
                THEN InitDisks ELSE {EmptyMap}
    /\ idx = 1
    /\ stage = "parse"
    /\ wasmBytes = <<>>
    /\ entry = NilEntry
    /\ catalog = EmptyMap
    /\ tools = EmptyMap
    /\ regLog = <<>>
    /\ sessions = EmptyMap
    /\ rpcOpen = {}
    /\ bstate = EmptyMap
    /\ failure = NoFailure
    /\ errors = {}
    /\ fetchLog = <<>>
    /\ calls = 0
    /\ lastCall = NoCall

Cur == config[idx]

CurName == InstanceName(idx)

CurParsed == ParsePluginSource(Cur.Source)

\* A setup step succeeded: runServe goes on to stage st.
Continue(st) ==
    /\ stage' = st
    /\ UNCHANGED <<phase, failure, errors>>

\* A setup step failed with an error that runServe returns.
Abort_skip(st) ==
    /\ phase' = "serving"
    /\ failure' = failure
    /\ errors' = errors \cup {[backend |-> idx, stage |-> st]}
    /\ stage' = "done"

Abort(st) ==
    /\ phase' = "failed"
    /\ failure' = [backend |-> idx, stage |-> st]
    /\ errors' = errors \cup {[backend |-> idx, stage |-> st]}
    /\ UNCHANGED stage

\* A setup step failed with an error that is logged, and setup goes on to st.
Warn(what, st) ==
    /\ errors' = errors \cup {[backend |-> idx, stage |-> what]}
    /\ stage' = st
    /\ UNCHANGED <<phase, failure>>

\* The sessions of a host whose runtime is closed.
ClosedSessions(ss) ==
    [i \in 1..Len(ss) |-> IF ss[i].task = "running"
                          THEN [ss[i] EXCEPT !.task = "exitN"] ELSE ss[i]]

\* defer wasmHost.Close(ctx): runs when runServe returns.
Deferred(ss) ==
    /\ hostClosed' = (hostClosed \/ phase' \in {"failed", "stopped"})
    /\ hostSessions' = IF phase' \in {"failed", "stopped"} THEN ClosedSessions(ss) ELSE ss

\* The plugin at idx is set up: the loop goes to the next one, or the
\* server starts.
NextPlugin ==
    IF idx = Len(config)
    THEN /\ phase' = "serving" /\ stage' = "done" /\ UNCHANGED idx
    ELSE /\ idx' = idx + 1 /\ stage' = "parse" /\ UNCHANGED phase

SetState(st) == bstate' = [bstate EXCEPT ![idx] = st]

\* runServe from LoadCredentials to the start of the plugin loop.
LoadCredentialsStep ==
    /\ phase = "start"
    /\ \E servers \in SeqsUpTo(RemoteServerURLs, MaxRemote), fetchOK \in BOOLEAN :
         /\ (creds # "valid" \/ ~fetchOK) => servers = <<>>
         /\ creds # "valid" => fetchOK
         /\ config' = config \o [k \in DOMAIN servers |->
                                   [Source |-> servers[k], IsCloud |-> TRUE]]
         /\ errors' = IF fetchOK THEN errors
                      ELSE errors \cup {[backend |-> 0, stage |-> "fetchRemoteServers"]}
    /\ bstate' = [i \in 1..Len(config') |-> "Unresolved"]
    /\ tools' = NativeToolSet
    /\ phase' = IF config' = <<>> THEN "serving" ELSE "loading"
    /\ stage' = IF config' = <<>> THEN "done" ELSE "parse"
    /\ UNCHANGED <<creds, idx, wasmBytes, entry, catalog, regLog, sessions, rpcOpen,
                   failure, fetchLog, calls, lastCall>>
    /\ UNCHANGED <<hostVars, hostClient, cacheVars, cacheClient>>
    /\ UNCHANGED extVars

\* The credentials pass their expiry (less the five-minute margin) between
\* runServe's IsValid check and loadCloudPlugin's.
CredentialsExpire ==
    /\ phase = "loading" /\ stage = "cloudConnect" /\ creds = "valid"
    /\ creds' = "expired"
    /\ UNCHANGED <<phase, config, idx, stage, wasmBytes, entry, catalog, tools, regLog,
                   sessions, rpcOpen, bstate, failure, errors, fetchLog, calls, lastCall>>
    /\ UNCHANGED <<hostVars, hostClient, cacheVars, cacheClient>>
    /\ UNCHANGED extVars

\* runServe: mcper.ParsePluginSource and the dispatch on IsCloud and Type.
ParseStep ==
    /\ phase = "loading" /\ stage = "parse"
    /\ IF CurParsed.err
       THEN Abort("parse") /\ UNCHANGED bstate
       ELSE /\ SetState("SourceResolved")
            /\ Continue(IF Cur.IsCloud THEN "cloudConnect"
                        ELSE CASE CurParsed.Type = PluginTypeLocal -> "readLocal"
                               [] CurParsed.Type = PluginTypeWASM -> "lookup"
                               [] OTHER -> "httpConnect")
    /\ Deferred(hostSessions)
    /\ UNCHANGED <<creds, config, idx, wasmBytes, entry, catalog, tools, regLog, sessions,
                   rpcOpen, fetchLog, calls, lastCall>>
    /\ UNCHANGED <<hostCache, hostPipes, hostClient, cacheVars, cacheClient>>
    /\ UNCHANGED extVars

\* loadLocalWASM: os.Getwd and os.ReadFile.
ReadLocalStep ==
    /\ phase = "loading" /\ stage = "readLocal"
    /\ \/ /\ Abort("fetch")
          /\ UNCHANGED <<wasmBytes, bstate>>
       \/ /\ \E b \in LocalFileContents : wasmBytes' = b
          /\ SetState("LocalRead")
          /\ Continue("load")
    /\ Deferred(hostSessions)
    /\ UNCHANGED <<creds, config, idx, entry, catalog, tools, regLog, sessions, rpcOpen,
                   fetchLog, calls, lastCall>>
    /\ UNCHANGED <<hostCache, hostPipes, hostClient, cacheVars, cacheClient>>
    /\ UNCHANGED extVars

\* loadRemoteWASM: GetCacheEntry, os.ReadFile of the cached artifact and
\* VerifyCache.
LookupStep ==
    /\ phase = "loading" /\ stage = "lookup"
    /\ \E homeOK, readOK \in BOOLEAN :
         LET got == GetCacheEntry(disk, CurParsed, homeOK)
         IN IF got.err \/ (got.entry # NilEntry /\ ~readOK)
            THEN Abort("fetch") /\ UNCHANGED <<wasmBytes, entry, bstate>>
            ELSE IF got.entry = NilEntry
                 THEN /\ readOK
                      /\ entry' = NilEntry
                      /\ Continue("download")
                      /\ UNCHANGED <<wasmBytes, bstate>>
                 ELSE LET v == VerifyCache(disk, got.entry)
                      IN /\ wasmBytes' = disk[got.entry.WASMPath].bytes
                         /\ IF v.err \/ ~v.valid
                            THEN /\ entry' = NilEntry
                                 /\ Warn("verify", "download")
                                 /\ UNCHANGED bstate
                            ELSE /\ entry' = got.entry
                                 /\ SetState("Cached")
                                 /\ Continue("load")
    /\ Deferred(hostSessions)
    /\ UNCHANGED <<creds, config, idx, catalog, tools, regLog, sessions, rpcOpen,
                   fetchLog, calls, lastCall>>
    /\ UNCHANGED <<hostCache, hostPipes, hostClient, cacheVars, cacheClient>>
    /\ UNCHANGED extVars

\* loadRemoteWASM: http.Get of the registry URL, io.ReadAll and SaveToCache.
DownloadStep ==
    /\ phase = "loading" /\ stage = "download"
    /\ fetchLog' = Append(fetchLog, [url |-> RegistryURL(CurParsed), backend |-> idx])
    /\ \/ /\ Abort("fetch")
          /\ UNCHANGED <<wasmBytes, bstate, disk>>
       \/ \E b \in RegistryContents, io \in SaveOutcomes :
            \E cut \in IF io = "wasmWriteFail" THEN 0..Len(b) ELSE {0} :
               LET saved == SaveToCache(disk, CurParsed, b, io, cut)
               IN /\ wasmBytes' = b
                  /\ disk' = saved.disk
                  /\ SetState("Downloaded")
                  /\ IF saved.err THEN Warn("save", "load") ELSE Continue("load")
    /\ Deferred(hostSessions)
    /\ UNCHANGED <<creds, config, idx, entry, catalog, tools, regLog, sessions, rpcOpen,
                   calls, lastCall>>
    /\ UNCHANGED <<hostCache, hostPipes, hostClient, cacheClient>>
    /\ UNCHANGED extVars

\* runWASMModule: host.LoadModule(ctx, name, wasmBytes).
LoadStep ==
    /\ phase = "loading" /\ stage = "load"
    /\ LET r == LoadModule(hostCache, CurName, wasmBytes)
       IN /\ hostCache' = r.cache
          /\ IF r.err # None THEN Abort("load") ELSE Continue("run")
    /\ Deferred(hostSessions)
    /\ UNCHANGED <<creds, config, idx, wasmBytes, entry, catalog, tools, regLog, sessions,
                   rpcOpen, bstate, fetchLog, calls, lastCall>>
    /\ UNCHANGED <<hostPipes, hostClient, cacheVars, cacheClient>>
    /\ UNCHANGED extVars

\* runWASMModule: the environment list and host.RunModuleWithLogging.
RunStep ==
    /\ phase = "loading" /\ stage = "run"
    /\ \E io \in RunOutcomes :
         LET r == RunModule(hostCache, CurName, io)
         IN /\ hostPipes' = hostPipes + r.pipes
            /\ IF r.err # None THEN Abort("run") ELSE Continue("connect")
            /\ Deferred(IF r.started THEN StartTask(hostSessions, CurName)
                        ELSE hostSessions)
    /\ UNCHANGED <<creds, config, idx, wasmBytes, entry, catalog, tools, regLog, sessions,
                   rpcOpen, bstate, fetchLog, calls, lastCall>>
    /\ UNCHANGED <<hostCache, hostClient, cacheVars, cacheClient>>
    /\ UNCHANGED extVars

\* mcp.Client.Connect over a transport: the session opens, and setup goes
\* on to stage next, or the connection fails.
Connect(next) ==
    \/ /\ Abort("session")
       /\ UNCHANGED <<rpcOpen, bstate>>
    \/ /\ rpcOpen' = rpcOpen \cup {idx}
       /\ SetState("SessionOpen")
       /\ Continue(next)

\* session.ListTools: the backend answers with its tools, and setup goes on
\* to stage next, or the call fails.
ListTools_unchecked(next) ==
    /\ \E c \in Catalogs :
         catalog' = [b \in DOMAIN catalog \cup {idx} |->
                       IF b = idx THEN c ELSE catalog[b]]
    /\ UNCHANGED bstate
    /\ Continue(next)

ListTools(next) ==
    \/ /\ Abort("list")
       /\ UNCHANGED <<catalog, bstate>>
    \/ /\ \E c \in Catalogs :
            catalog' = [b \in DOMAIN catalog \cup {idx} |->
                          IF b = idx THEN c ELSE catalog[b]]
       /\ SetState("CatalogFetched")
       /\ Continue(next)

\* The registration loop over the listed tools, the return of the session
\* to runServe, which records it under the instance name, and the next
\* plugin.
Register ==
    /\ LET r == RegisterTools(tools, regLog, config, idx, catalog[idx])
       IN tools' = r.tools /\ regLog' = r.log
    /\ sessions' = [n \in DOMAIN sessions \cup {CurName} |->
                      IF n = CurName THEN idx ELSE sessions[n]]
    /\ SetState("ToolsRegistered")
    /\ NextPlugin
    /\ UNCHANGED <<failure, errors>>

\* runWASMModule: wasmClient.Connect over the module's pipes.
ConnectStep ==
    /\ phase = "loading" /\ stage = "connect"
    /\ Connect("list")
    /\ Deferred(hostSessions)
    /\ UNCHANGED <<creds, config, idx, wasmBytes, entry, catalog, tools, regLog, sessions,
                   fetchLog, calls, lastCall>>
    /\ UNCHANGED <<hostCache, hostPipes, hostClient, cacheVars, cacheClient>>
    /\ UNCHANGED extVars

\* runWASMModule: session.ListTools.
ListToolsStep ==
    /\ phase = "loading" /\ stage = "list"
    /\ ListTools("register")
    /\ Deferred(hostSessions)
    /\ UNCHANGED <<creds, config, idx, wasmBytes, entry, tools, regLog, sessions, rpcOpen,
                   fetchLog, calls, lastCall>>
    /\ UNCHANGED <<hostCache, hostPipes, hostClient, cacheVars, cacheClient>>
    /\ UNCHANGED extVars

\* runWASMModule: the registration loop; runServe: sessions[name] = session.
RegisterStep ==
    /\ phase = "loading" /\ stage = "register"
    /\ Register
    /\ UNCHANGED <<creds, config, wasmBytes, entry, catalog, rpcOpen, fetchLog, calls,
                   lastCall>>
    /\ UNCHANGED <<hostVars, hostClient, cacheVars, cacheClient>>
    /\ UNCHANGED extVars

\* loadHTTPPlugin: httpClient.Connect over the streamable HTTP transport.
HTTPConnectStep ==
    /\ phase = "loading" /\ stage = "httpConnect"
    /\ Connect("httpList")
    /\ Deferred(hostSessions)
    /\ UNCHANGED <<creds, config, idx, wasmBytes, entry, catalog, tools, regLog, sessions,
                   fetchLog, calls, lastCall>>
    /\ UNCHANGED <<hostCache, hostPipes, hostClient, cacheVars, cacheClient>>
    /\ UNCHANGED extVars

\* loadHTTPPlugin: session.ListTools.
HTTPListToolsStep ==
    /\ phase = "loading" /\ stage = "httpList"
    /\ ListTools("httpRegister")
    /\ Deferred(hostSessions)
    /\ UNCHANGED <<creds, config, idx, wasmBytes, entry, tools, regLog, sessions, rpcOpen,
                   fetchLog, calls, lastCall>>
    /\ UNCHANGED <<hostCache, hostPipes, hostClient, cacheVars, cacheClient>>
    /\ UNCHANGED extVars

\* loadHTTPPlugin: the registration loop; runServe: sessions[name] = session.
HTTPRegisterStep ==
    /\ phase = "loading" /\ stage = "httpRegister"
    /\ Register
    /\ UNCHANGED <<creds, config, wasmBytes, entry, catalog, rpcOpen, fetchLog, calls,
                   lastCall>>
    /\ UNCHANGED <<hostVars, hostClient, cacheVars, cacheClient>>
    /\ UNCHANGED extVars

\* loadCloudPlugin: the credentials check and cloudClient.Connect to the
\* cloud MCP endpoint.
CloudConnectStep ==
    /\ phase = "loading" /\ stage = "cloudConnect"
    /\ IF creds # "valid"
       THEN Abort("credentials") /\ UNCHANGED <<rpcOpen, bstate>>
       ELSE Connect("cloudList")
    /\ Deferred(hostSessions)
    /\ UNCHANGED <<creds, config, idx, wasmBytes, entry, catalog, tools, regLog, sessions,
                   fetchLog, calls, lastCall>>
    /\ UNCHANGED <<hostCache, hostPipes, hostClient, cacheVars, cacheClient>>
    /\ UNCHANGED extVars

\* loadCloudPlugin: session.ListTools, and session.Close when it fails.
CloudListToolsStep ==
    /\ phase = "loading" /\ stage = "cloudList"
    /\ ListTools("cloudRegister")
    /\ rpcOpen' = IF phase' = "failed" THEN rpcOpen \ {idx} ELSE rpcOpen
    /\ Deferred(hostSessions)
    /\ UNCHANGED <<creds, config, idx, wasmBytes, entry, tools, regLog, sessions,
                   fetchLog, calls, lastCall>>
    /\ UNCHANGED <<hostCache, hostPipes, hostClient, cacheVars, cacheClient>>
    /\ UNCHANGED extVars

\* loadCloudPlugin: the registration loop; runServe: sessions[name] = session.
CloudRegisterStep ==
    /\ phase = "loading" /\ stage = "cloudRegister"
    /\ Register
    /\ UNCHANGED <<creds, config, wasmBytes, entry, catalog, rpcOpen, fetchLog, calls,
                   lastCall>>
    /\ UNCHANGED <<hostVars, hostClient, cacheVars, cacheClient>>
    /\ UNCHANGED extVars

\* The running server handles a tools/call for a tool a plugin registered.
CallTool ==
    /\ phase = "serving" /\ calls < MaxCalls
    /\ \E n \in DOMAIN tools, args \in Args, out \in BackendOutcomes :
         /\ tools[n].session # 0
         /\ lastCall' = Handler(tools[n], n, args, out)
    /\ calls' = calls + 1
    /\ UNCHANGED <<phase, creds, config, idx, stage, wasmBytes, entry, catalog, tools,
                   regLog, sessions, rpcOpen, bstate, failure, errors, fetchLog>>
    /\ UNCHANGED <<hostVars, hostClient, cacheVars, cacheClient>>
    /\ UNCHANGED extVars

\* os.Interrupt, or the end of stdin: mcpServer.Run returns, runServe
\* returns and its deferred wasmHost.Close runs.
Interrupt ==
    /\ phase = "serving"
    /\ phase' = "stopped"
    /\ Deferred(hostSessions)
    /\ UNCHANGED <<creds, config, idx, stage, wasmBytes, entry, catalog, tools, regLog,
                   sessions, rpcOpen, bstate, failure, errors, fetchLog, calls, lastCall>>
    /\ UNCHANGED <<hostCache, hostPipes, hostClient, cacheVars, cacheClient>>
    /\ UNCHANGED extVars

\* runServe's own steps and the requests it serves.  A module's task ending by
\* itself is an action of SpecHost: runServe reads no task's state.
Next ==
    \/ LoadCredentialsStep
    \/ CredentialsExpire
    \/ ParseStep
    \/ ReadLocalStep
    \/ LookupStep
    \/ DownloadStep
    \/ LoadStep
    \/ RunStep
    \/ ConnectStep
    \/ ListToolsStep
    \/ RegisterStep
    \/ HTTPConnectStep
    \/ HTTPListToolsStep
    \/ HTTPRegisterStep
    \/ CloudConnectStep
    \/ CloudListToolsStep
    \/ CloudRegisterStep
    \/ CallTool
    \/ Interrupt

Spec == Init /\ [][Next]_vars

\* ------------------------------------------------------------------ SpecSession

\* The ways a forwarded call can stand: waiting for the response on the
\* session's stdout pipe, answered by the module, failed because the RPC
\* connection saw the pipe closed, or given up by its caller's context.
FwdStates == {"pending", "result", "sessionError", "cancelled"}

\* The handler registered by runWASMModule: toolSession.CallTool(ctx, ...)
\* writes the request to the session's stdin pipe and waits for the
\* response with the caller's context and no deadline of its own.  On a
\* session whose pipe is closed the call fails at once.
ForwardCallTool ==
    /\ Len(fwd) < MaxFwd
    /\ \E i \in 1..Len(hostSessions) :
         fwd' = Append(fwd, [sess |-> i,
                             state |-> IF i \in pipeW THEN "sessionError" ELSE "pending"])
    /\ UNCHANGED <<hostVars, hostClient, cacheVars, cacheClient, serveVars, pipeW, bridgeVars, frameVars,
                   parseVars, utilVars>>

\* The module of a running instance writes the response of a pending call.
ModuleAnswer ==
    /\ \E k \in 1..Len(fwd) :
         /\ fwd[k].state = "pending"
         /\ hostSessions[fwd[k].sess].task = "running"
         /\ fwd' = [fwd EXCEPT ![k].state = "result"]
    /\ UNCHANGED <<hostVars, hostClient, cacheVars, cacheClient, serveVars, pipeW, bridgeVars, frameVars,
                   parseVars, utilVars>>

\* RunModuleWithLogging keeps no reference to wasmToHostW and discards the
\* WASI system it instantiated: nothing in the program closes the write end
\* of a session's stdout pipe.  Only the runtime's finalizer of the dropped
\* os.File can, at a time of its choosing or never.
PipeClosed ==
    /\ \E i \in 1..Len(hostSessions) :
         /\ i \notin pipeW
         /\ pipeW' = pipeW \cup {i}
    /\ UNCHANGED <<hostVars, hostClient, cacheVars, cacheClient, serveVars, fwd, bridgeVars, frameVars,
                   parseVars, utilVars>>

\* The session's reader gets EOF from wasmConn.Read: the connection is
\* closed and every call pending on it fails.
ReadEOF ==
    /\ \E i \in pipeW :
         /\ \E k \in 1..Len(fwd) : fwd[k].sess = i /\ fwd[k].state = "pending"
         /\ fwd' = [k \in 1..Len(fwd) |->
                      IF fwd[k].sess = i /\ fwd[k].state = "pending"
                      THEN [fwd[k] EXCEPT !.state = "sessionError"]
                      ELSE fwd[k]]
    /\ UNCHANGED <<hostVars, hostClient, cacheVars, cacheClient, serveVars, pipeW, bridgeVars, frameVars,
                   parseVars, utilVars>>

\* The caller of the aggregator cancels its request: ctx is done.
CallerCancel ==
    /\ \E k \in 1..Len(fwd) :
         /\ fwd[k].state = "pending"
         /\ fwd' = [fwd EXCEPT ![k].state = "cancelled"]
    /\ UNCHANGED <<hostVars, hostClient, cacheVars, cacheClient, serveVars, pipeW, bridgeVars, frameVars,
                   parseVars, utilVars>>

NextSession ==
    \/ HostLoadModule
    \/ HostRunModuleWithLogging
    \/ TaskExit
    \/ ForwardCallTool
    \/ ModuleAnswer
    \/ PipeClosed
    \/ ReadEOF
    \/ CallerCancel

\* The program's own steps are taken when they can be: a reader that can
\* see EOF sees it.  The module, the finalizer and the caller are not the
\* program's to schedule.
SpecSession == InitHostSpec /\ [][NextSession]_vars /\ WF_vars(ReadEOF)

\* ------------------------------------------------------------------ SpecBridge
\* cmd/chrome-bridge: the Bridge between HTTP callers and the extension.

\* fmt.Sprintf("req-%d", n)
ReqID(n) == <<"req-", n>>

\* The ids a message read from the extension can carry: none, or any
\* request id, issued or not.
IncomingIDs == {NoID} \cup {ReqID(n) : n \in 1..MaxRequests}

\* The part of rest without key k: delete(m, k).
Delete(m, k) == [x \in DOMAIN m \ {k} |-> m[x]]

\* sendCommand, under b.mu: the next id and its channel make(chan Message, 1).
\* A registration that numbers the request by the size of the table.
NewRequest_tablesize(p, rid) ==
    LET n == Cardinality(DOMAIN p) + 1
    IN [requestID |-> rid + 1,
        id |-> ReqID(n),
        pending |-> [x \in DOMAIN p \cup {ReqID(n)} |-> <<>>]]

NewRequest(p, rid) ==
    [requestID |-> rid + 1,
     id |-> ReqID(rid + 1),
     pending |-> [x \in DOMAIN p \cup {ReqID(rid + 1)} |->
                    IF x = ReqID(rid + 1) THEN <<>> ELSE p[x]]]

\* readNativeMessages, routing msg under b.mu: [pending, blocked].  A
\* message with an id in the table is sent to that id's channel; the send
\* waits, with the mutex held, while the channel's one slot is taken.
\* A reader that hands a message of unknown id to a waiting call.
Route_anyentry(p, msg) ==
    IF msg.id = NoID \/ msg.id \notin DOMAIN p
    THEN IF \E k \in DOMAIN p : p[k] = <<>>
         THEN [pending |-> [p EXCEPT ![CHOOSE k \in DOMAIN p : p[k] = <<>>] = <<msg>>],
               blocked |-> FALSE]
         ELSE [pending |-> p, blocked |-> FALSE]
    ELSE IF p[msg.id] # <<>>
         THEN [pending |-> p, blocked |-> TRUE]
         ELSE [pending |-> [p EXCEPT ![msg.id] = <<msg>>], blocked |-> FALSE]

Route(p, msg) ==
    IF msg.id = NoID \/ msg.id \notin DOMAIN p
    THEN [pending |-> p, blocked |-> FALSE]
    ELSE IF p[msg.id] # <<>>
         THEN [pending |-> p, blocked |-> TRUE]
         ELSE [pending |-> [p EXCEPT ![msg.id] = <<msg>>], blocked |-> FALSE]

\* b.mu is held by the reader while its send waits; every other critical
\* section of the bridge is one step.
MuFree == rdr.pc # "send"

\* The ways a Write to nativeWriter can end.
WriteOutcomes == IF rdr.pc = "eof" THEN {"fail"} ELSE {"ok", "fail"}

\* sendCommand, lines 218-223: the id is taken and the channel stored.
SendCommandRegister(c) ==
    /\ callers[c].pc \in {"idle", "done"}
    /\ requestID < MaxRequests
    /\ MuFree
    /\ LET r == NewRequest(pendingRequests, requestID)
       IN /\ pendingRequests' = r.pending
          /\ requestID' = r.requestID
          /\ callers' = [callers EXCEPT ![c] = [pc |-> "writeLen", id |-> r.id,
                                                 res |-> NoResult]]
    /\ UNCHANGED <<wire, rdr, inSeq>>

\* The result of a call whose write failed: "failed to send command".
SendFailed(c) ==
    callers' = [callers EXCEPT ![c].pc = "return",
                               ![c].res = [kind |-> "sendFailed", msg |-> NoMsg]]

\* writeNativeMessage, binary.Write of the length: one Write, b.mu not held.
WriteLength(c) ==
    /\ callers[c].pc = "writeLen"
    /\ \E io \in WriteOutcomes :
         IF io = "ok"
         THEN /\ wire' = Append(wire, [id |-> callers[c].id, part |-> "len"])
              /\ callers' = [callers EXCEPT ![c].pc = "writeBody"]
         ELSE /\ SendFailed(c)
              /\ UNCHANGED wire
    /\ UNCHANGED <<pendingRequests, requestID, rdr, inSeq>>

\* writeNativeMessage, nativeWriter.Write(content): a second Write.
WriteContent(c) ==
    /\ callers[c].pc = "writeBody"
    /\ \E io \in WriteOutcomes :
         IF io = "ok"
         THEN /\ wire' = Append(wire, [id |-> callers[c].id, part |-> "body"])
              /\ callers' = [callers EXCEPT ![c].pc = "select"]
         ELSE /\ SendFailed(c)
              /\ UNCHANGED wire
    /\ UNCHANGED <<pendingRequests, requestID, rdr, inSeq>>

\* select, case response := <-responseChan
Receive(c) ==
    /\ callers[c].pc = "select"
    /\ pendingRequests[callers[c].id] # <<>>
    /\ callers' = [callers EXCEPT
                     ![c].pc = "return",
                     ![c].res = [kind |-> "response",
                                 msg |-> Head(pendingRequests[callers[c].id])]]
    /\ pendingRequests' = [pendingRequests EXCEPT ![callers[c].id] = Tail(@)]
    /\ UNCHANGED <<requestID, wire, rdr, inSeq>>

\* select, case <-time.After(30 * time.Second): "command timeout".  With a
\* response in the channel as well, select takes either case.
Timeout(c) ==
    /\ callers[c].pc = "select"
    /\ callers' = [callers EXCEPT ![c].pc = "return",
                                  ![c].res = [kind |-> "timeout", msg |-> NoMsg]]
    /\ UNCHANGED <<pendingRequests, requestID, wire, rdr, inSeq>>

\* The deferred function of sendCommand on a bridge in state
\* [pending, rdr]: the entry of id is deleted.
DeferredDelete(b, id, res) == [b EXCEPT !.pending = Delete(b.pending, id)]

\* sendCommand returns: the deferred delete runs under b.mu.
ReturnCall(c) ==
    /\ callers[c].pc = "return"
    /\ MuFree
    /\ LET b == DeferredDelete([pending |-> pendingRequests, rdr |-> rdr],
                               callers[c].id, callers[c].res)
       IN /\ pendingRequests' = b.pending
          /\ rdr' = b.rdr
    /\ callers' = [callers EXCEPT ![c].pc = "done"]
    /\ UNCHANGED <<requestID, wire, inSeq>>

\* readNativeMessages: one message is read and parsed, then routed.
ReadMessage ==
    /\ rdr.pc = "read"
    /\ inSeq < MaxIncoming
    /\ \E id \in IncomingIDs :
         LET msg == [id |-> id, seq |-> inSeq + 1]
             r == Route(pendingRequests, msg)
         IN /\ pendingRequests' = r.pending
            /\ rdr' = [pc |-> IF r.blocked THEN "send" ELSE "read", msg |-> msg]
    /\ inSeq' = inSeq + 1
    /\ UNCHANGED <<requestID, callers, wire>>

\* The reader's waiting send goes through once the channel has room.
ReaderUnblock ==
    /\ rdr.pc = "send"
    /\ pendingRequests[rdr.msg.id] = <<>>
    /\ pendingRequests' = [pendingRequests EXCEPT ![rdr.msg.id] = <<rdr.msg>>]
    /\ rdr' = [rdr EXCEPT !.pc = "read"]
    /\ UNCHANGED <<requestID, callers, wire, inSeq>>

\* binary.Read returns io.EOF: the extension is gone and the reader returns.
ReaderEOF ==
    /\ rdr.pc = "read"
    /\ rdr' = [rdr EXCEPT !.pc = "eof"]
    /\ UNCHANGED <<pendingRequests, requestID, callers, wire, inSeq>>

BridgeIdleRest ==
    UNCHANGED <<hostVars, hostClient, cacheVars, cacheClient, serveVars, sessVars,
                frameVars, parseVars, utilVars>>

NextBridge ==
    \/ \E c \in Callers : SendCommandRegister(c) /\ BridgeIdleRest
    \/ \E c \in Callers : WriteLength(c) /\ BridgeIdleRest
    \/ \E c \in Callers : WriteContent(c) /\ BridgeIdleRest
    \/ \E c \in Callers : Receive(c) /\ BridgeIdleRest
    \/ \E c \in Callers : Timeout(c) /\ BridgeIdleRest
    \/ \E c \in Callers : ReturnCall(c) /\ BridgeIdleRest
    \/ ReadMessage /\ BridgeIdleRest
    \/ ReaderUnblock /\ BridgeIdleRest
    \/ ReaderEOF /\ BridgeIdleRest

\* A Bridge in use: runNativeHost starts the reader, runHTTPServer serves
\* sendCommand without starting it.  The specification covers both, and a
\* Bridge on which calls are made while the reader runs.
InitBridgeSpec ==
    /\ InitHost /\ disk = EmptyMap /\ InitCacheClient /\ InitServeIdle /\ InitSessIdle
    /\ InitFrame /\ InitParse(<<>>) /\ InitUtilIdle
    /\ \E r \in {"read", "off"} : InitBridge(r)

SpecBridge == InitBridgeSpec /\ [][NextBridge]_vars

\* The steps of the bridge's own goroutines are taken when they can be: a
\* Write ends, a select with a ready case or an expired timer is left, a
\* mutex that is free is acquired, a send on a channel with room goes
\* through.  What the extension sends and when callers call is not the
\* bridge's to schedule.
BridgeFairness ==
    /\ \A c \in Callers :
         /\ WF_vars(WriteLength(c) /\ BridgeIdleRest)
         /\ WF_vars(WriteContent(c) /\ BridgeIdleRest)
         /\ WF_vars((Receive(c) \/ Timeout(c)) /\ BridgeIdleRest)
         /\ WF_vars(ReturnCall(c) /\ BridgeIdleRest)
    /\ WF_vars(ReaderUnblock /\ BridgeIdleRest)

SpecBridgeFair == SpecBridge /\ BridgeFairness

\* ------------------------------------------------------------------ SpecFrame
\* cmd/chrome-bridge: writeNativeMessage and readNativeMessages on bytes.

\* if length > 1024*1024
MaxMessageSize == 1024 * 1024

\* A string or raw JSON value of a Message: its text s and its bytes n.
EmptyVal == [s |-> <<>>, n |-> 0]

FrameIDs == {EmptyVal, [s |-> ReqID(1), n |-> 5]}

FrameCommands == {EmptyVal, [s |-> <<"navigate">>, n |-> 8]}

\* The bytes before and after the params of a message with an id and a
\* command: {"id":"req-1","command":"navigate","params": and }.
FullOverhead == 45

\* Params: none, a small object, and objects that bring the whole message
\* to the limit, one byte over it and four bytes over it.
ParamSizes == {2, MaxMessageSize - FullOverhead, MaxMessageSize - FullOverhead + 1,
               MaxMessageSize - FullOverhead + 4}

FrameParams == {EmptyVal} \cup {[s |-> <<"{", k, "}">>, n |-> k] : k \in ParamSizes}

\* Message, with the fields sendCommand and the extension set.
Messages ==
    {[ID |-> i, Command |-> c, Params |-> p] :
        i \in FrameIDs, c \in FrameCommands, p \in FrameParams}

\* The fields of Message in declaration order: the JSON key, its length,
\* whether the value is written as a string, the value.
Fields(m) ==
    <<[key |-> "id", klen |-> 2, str |-> TRUE, val |-> m.ID],
      [key |-> "command", klen |-> 7, str |-> TRUE, val |-> m.Command],
      [key |-> "params", klen |-> 6, str |-> FALSE, val |-> m.Params]>>

NonEmpty(f) == f.val # EmptyVal

\* json.Marshal(msg): every field is omitempty.
Marshal(m) == SelectSeq(Fields(m), NonEmpty)

RECURSIVE FieldBytes(_)
\* The bytes of the members of a JSON object, without separators.
FieldBytes(text) ==
    IF text = <<>> THEN 0
    ELSE LET f == Head(text)
         IN (f.klen + 2) + 1 + (f.val.n + IF f.str THEN 2 ELSE 0) + FieldBytes(Tail(text))

\* len(content): braces, members and the commas between them.
TextSize(text) ==
    2 + FieldBytes(text) + (IF Len(text) > 1 THEN Len(text) - 1 ELSE 0)

\* The member of text with key k, or the zero value.
Member(text, k) ==
    IF \E i \in DOMAIN text : text[i].key = k
    THEN text[CHOOSE i \in DOMAIN text : text[i].key = k].val
    ELSE EmptyVal

\* json.Unmarshal(content, &msg)
Unmarshal(text) ==
    [ID |-> Member(text, "id"), Command |-> Member(text, "command"),
     Params |-> Member(text, "params")]

\* writeNativeMessage: uint32(len(content)), which is len(content) for the
\* sizes here, and then the n bytes of content.
WriteNativeMessage(m) ==
    [len |-> TextSize(Marshal(m)), body |-> Marshal(m), n |-> TextSize(Marshal(m))]

RECURSIVE StreamLen(_)
\* The bytes of a sequence of frames.
StreamLen(st) == IF st = <<>> THEN 0 ELSE 4 + st[1].n + StreamLen(Tail(st))

\* The offset of the first byte of frame k.
Start(st, k) == StreamLen(SubSeq(st, 1, k - 1))

\* The frame that holds the byte at offset p.
FrameAt(st, p) == CHOOSE k \in DOMAIN st : Start(st, k) <= p /\ p < Start(st, k + 1)

Pow256(i) == CASE i = 0 -> 1 [] i = 1 -> 256 [] i = 2 -> 65536 [] i = 3 -> 16777216

\* Byte i of a JSON text of n bytes: the braces and, between them, bytes
\* of members.  json.Marshal and JSON.stringify write no byte below 0x20.
BodyByte(n, i) == IF i = 0 THEN 123 ELSE IF i = n - 1 THEN 125 ELSE 34

\* The byte at offset p of the stream.
ByteAt(st, p) ==
    LET k == FrameAt(st, p)
        off == p - Start(st, k)
    IN IF off < 4 THEN (st[k].len \div Pow256(off)) % 256
       ELSE BodyByte(st[k].n, off - 4)

\* binary.Read(reader, binary.LittleEndian, &length) at offset p.  A
\* length with a high byte is held as 2^24: above the maximum, which is
\* all the reader asks of it.
ReadLength(st, p) ==
    IF ByteAt(st, p + 3) > 0 THEN Pow256(3)
    ELSE ByteAt(st, p) + Pow256(1) * ByteAt(st, p + 1) + Pow256(2) * ByteAt(st, p + 2)

\* The sanity check on a length: if length > 1024*1024.
TooLarge_atlimit(length) == length >= MaxMessageSize

TooLarge(length) == length > MaxMessageSize

\* One iteration of the loop of readNativeMessages at offset pos:
\* [pos, kind, msg], kind "block" when the bytes it needs are not there yet.
\* A run of iterations whose four bytes all lie inside the payload of one
\* frame is taken as one: each of them reads a length of at least
\* 0x20202020 and is rejected.
Iteration(st, closed, pos) ==
    LET total == StreamLen(st)
        Out(p, kind, m) == [pos |-> p, kind |-> kind, msg |-> m]
        None0 == Unmarshal(<<>>)
    IN IF total - pos = 0
       THEN IF closed THEN Out(pos, "eof", None0) ELSE Out(pos, "block", None0)
       ELSE IF total - pos < 4
       THEN IF closed THEN Out(total, "error", None0) ELSE Out(pos, "block", None0)
       ELSE LET k == FrameAt(st, pos)
                bodyEnd == Start(st, k + 1)
                length == ReadLength(st, pos)
            IN IF pos >= Start(st, k) + 4 /\ pos + 4 <= bodyEnd
               THEN Out(pos + 4 * ((bodyEnd - pos) \div 4), "reject", None0)
               ELSE IF TooLarge(length)
               THEN Out(pos + 4, "reject", None0)
               ELSE IF total - (pos + 4) < length
               THEN IF closed THEN Out(total, "error", None0) ELSE Out(pos, "block", None0)
               ELSE IF pos = Start(st, k) /\ length = st[k].n
               THEN Out(pos + 4 + length, "msg", Unmarshal(st[k].body))
               ELSE Out(pos + 4 + length, "error", None0)

\* The writing side writes the frame of a message.
WriteFrame ==
    /\ Len(stream) < MaxFrames
    /\ ~inClosed
    /\ \E m \in Messages : stream' = Append(stream, WriteNativeMessage(m))
    /\ UNCHANGED <<inClosed, frd, decoded>>

\* The writing side closes the stream.
CloseStream ==
    /\ ~inClosed
    /\ inClosed' = TRUE
    /\ UNCHANGED <<stream, frd, decoded>>

\* readNativeMessages goes once round its loop.
ReaderStep ==
    /\ frd.pc = "run"
    /\ LET r == Iteration(stream, inClosed, frd.pos)
       IN /\ r.kind # "block"
          /\ frd' = [pos |-> r.pos, pc |-> IF r.kind = "eof" THEN "returned" ELSE "run"]
          /\ decoded' = IF r.kind = "msg"
                    THEN Append(decoded, [msg |-> r.msg, at |-> frd.pos, used |-> r.pos - frd.pos])
                    ELSE decoded
    /\ UNCHANGED <<stream, inClosed>>

FrameIdleRest ==
    UNCHANGED <<hostVars, hostClient, cacheVars, cacheClient, serveVars, sessVars,
                bridgeVars, parseVars, utilVars>>

NextFrame ==
    \/ WriteFrame /\ FrameIdleRest
    \/ CloseStream /\ FrameIdleRest
    \/ ReaderStep /\ FrameIdleRest

SpecFrame == InitHostSpec /\ [][NextFrame]_vars

\* ------------------------------------------------------------------ SpecParse
\* pkg/mcper/plugin.go: ParsePluginSource on source strings.

\* How a source string can begin: nothing, the local prefixes, the
\* registry's base URL, and URLs of other hosts and schemes.
SourceHeads ==
    {<<>>, <<".", "/">>, <<"/">>, <<".">>,
     GCSBaseURL \o <<"/">>,
     <<"https:", "/", "/", "host", "/">>,
     <<"http:", "/", "/", "host", "/">>,
     <<"ftp:", "/", "/", "host", "/">>}

\* What follows: up to MaxMiddle of a version, a separator, a bad escape
\* and a name.
MiddleTokens == {"v1", "/", "%", "a"}

SourceMiddles == UNION {[1..n -> MiddleTokens] : n \in 0..MaxMiddle}

\* How it can end: nothing, or an artifact's file name, whole or not, its
\* name or the end of its version holding an "@".
SourceTails ==
    {<<>>,
     <<"/", "plugin-", "hello", ".wasm">>,
     <<"/", "plugin-", "hello", "@", "v1", ".wasm">>,
     <<"@", "v1", "/", "plugin-", "hello", ".wasm">>,
     <<"/", "plugin-", ".wasm">>,
     <<"/", "plugin-", "hello", "/", "x", ".wasm">>,
     <<"/", "hello", ".wasm">>}

SourceStrings == {h \o m \o t : h \in SourceHeads, m \in SourceMiddles, t \in SourceTails}

\* A caller calls ParsePluginSource(source).
ParseCall ==
    /\ pres = NotParsed
    /\ pres' = ParsePluginSource(psrc)
    /\ UNCHANGED psrc
    /\ UNCHANGED <<hostVars, hostClient, cacheVars, cacheClient, serveVars, sessVars,
                   bridgeVars, frameVars, utilVars>>

InitParseSpec ==
    /\ InitHost /\ disk = EmptyMap /\ InitCacheClient /\ InitServeIdle /\ InitSessIdle
    /\ InitBridge("off") /\ InitFrame /\ InitUtilIdle
    /\ \E s \in SourceStrings : InitParse(s)

NextParse == ParseCall

SpecParse == InitParseSpec /\ [][NextParse]_vars

\* ------------------------------------------------------------------ claims

\* The positions of the locally declared backends: the plugins of the
\* configuration file, as opposed to those fetched from mcper-cloud.
LocalBackends == {b \in DOMAIN config : ~config[b].IsCloud}

CloudBackends == {b \in DOMAIN config : config[b].IsCloud}

\* C1: a registration under a namespaced name that is already registered is
\* rejected as a startup error, and the earlier registration stays in place.
C1_DuplicateRejected ==
    \A i, j \in DOMAIN regLog :
        (i < j /\ regLog[i].name = regLog[j].name) =>
            /\ phase = "failed"
            /\ tools[regLog[i].name] =
                   [session |-> regLog[i].backend, toolName |-> regLog[i].tool]

\* C2: two distinct configured backends that each expose a tool of the same
\* name have it registered under two different names.
C2_DistinctNames ==
    \A i, j \in DOMAIN regLog :
        (regLog[i].backend # regLog[j].backend /\ regLog[i].tool = regLog[j].tool) =>
            regLog[i].name # regLog[j].name

\* C3: a call of a registered name is forwarded to the session of a backend
\* that listed the tool and has it registered under that name, with the
\* tool's own name and the caller's arguments.
C3_ForwardedToListingBackend ==
    lastCall # NoCall =>
        /\ lastCall.fwdSession \in DOMAIN catalog
        /\ \E k \in DOMAIN catalog[lastCall.fwdSession] :
               catalog[lastCall.fwdSession][k] = lastCall.fwdTool
        /\ lastCall.name = RegisteredName(config, lastCall.fwdSession, lastCall.fwdTool)
        /\ lastCall.fwdTool # lastCall.name
        /\ lastCall.fwdArgs = lastCall.args

\* A call of the tool "x" of the second of two backends that list different
\* tool sets.
C3_Witness ==
    /\ lastCall # NoCall
    /\ lastCall.fwdSession = 2
    /\ lastCall.fwdTool = <<"x">>
    /\ lastCall.args = "a2"
    /\ Len(catalog[1]) # Len(catalog[2])
    /\ RegisteredName(config, 1, <<"x">>) # RegisteredName(config, 2, <<"x">>)

\* C4: when the backend's invocation fails or answers an error result, the
\* handler returns a result with isError set and raises no fault, and the
\* server goes on serving the same tools.
C4_BackendErrorIsResult ==
    (lastCall # NoCall /\ lastCall.out \in {"fail", "errorResult"}) =>
        /\ lastCall.isError
        /\ ~lastCall.fault
        /\ phase \in {"serving", "stopped"}
        /\ failure = NoFailure
        /\ lastCall.name \in DOMAIN tools

\* The backend's invocation failed and the server is serving.
C4_Witness ==
    /\ lastCall # NoCall
    /\ lastCall.out = "fail"
    /\ lastCall.isError
    /\ phase = "serving"

\* The stages of the setup of a backend at which it can fail.
SetupStages == {"parse", "fetch", "load", "run", "session", "list"}

\* C5: a failure at any setup stage of a locally declared backend ends
\* startup with that error, and the server serves only when every locally
\* declared backend has its tools registered.
C5_LocalFailureIsFatal ==
    /\ \A e \in errors :
           (e.backend \in LocalBackends /\ e.stage \in SetupStages) =>
               phase = "failed" /\ failure = e
    /\ phase \in {"serving", "stopped"} =>
           \A b \in LocalBackends :
               /\ bstate[b] = "ToolsRegistered"
               /\ \A k \in DOMAIN catalog[b] :
                      RegisteredName(config, b, catalog[b][k]) \in DOMAIN tools

\* The second locally declared backend fails to list its tools after the
\* first one has registered its own.
C5_Witness ==
    /\ phase = "failed"
    /\ failure = [backend |-> 2, stage |-> "list"]
    /\ 2 \in LocalBackends
    /\ bstate[1] = "ToolsRegistered"
    /\ regLog # <<>>

\* C6: a failed session or tool listing of a backend fetched from
\* mcper-cloud is logged and the backend skipped: startup does not fail.
C6_CloudFailureSkipped ==
    \A e \in errors :
        (e.backend \in CloudBackends /\ e.stage \in {"session", "list"}) =>
            phase # "failed"

\* C7: a Load of a name that already has a compiled module fails with the
\* duplicate-name error, whatever the bytes, and leaves the module cache as
\* it was.
C7_SecondLoadRejected ==
    (hostRes.op = "load" /\ hostRes.had) =>
        /\ hostRes.err = "already loaded"
        /\ hostCache = hostRes.prevCache

\* A second Load of a loaded name, with bytes that compile to another module.
C7_Witness ==
    /\ hostRes.op = "load" /\ hostRes.had
    /\ ~CompileModule(hostRes.arg).err
    /\ CompileModule(hostRes.arg).module # hostRes.prevCache[hostRes.name]
    /\ hostRes.err = "already loaded"

\* C8: an instance name has at most one compiled module, which is the module
\* of one backend that setup has reached, and at most one session.
C8_OnePerInstance ==
    /\ \A n \in DOMAIN hostCache :
           Cardinality({b \in LocalBackends : b <= idx /\ InstanceName(b) = n}) = 1
    /\ \A i, j \in DOMAIN hostSessions :
           hostSessions[i].name = hostSessions[j].name => i = j
    /\ \A i \in DOMAIN hostSessions : hostSessions[i].name \in DOMAIN hostCache

\* Two instances, each with its compiled module and its running session.
C8_Witness ==
    /\ Cardinality(DOMAIN hostCache) = 2
    /\ Len(hostSessions) = 2
    /\ \A i \in DOMAIN hostSessions : hostSessions[i].task = "running"
    /\ phase = "serving"

\* C9: a Run of a name with no compiled module returns the not-loaded error
\* and creates no pipe, no session and no background task.
C9_RunNotLoaded ==
    (hostRes.op \in {"run", "runplain"} /\ ~hostRes.had) =>
        /\ hostRes.err = "not found"
        /\ hostPipes = hostRes.prevPipes
        /\ Len(hostSessions) = Len(hostRes.prevSessions)

\* A Run of a name that was never loaded, which the environment would
\* have let succeed, on a host that has another module loaded.
C9_Witness ==
    /\ hostRes.op = "run" /\ ~hostRes.had /\ hostRes.arg = "ok"
    /\ hostRes.err = "not found"
    /\ hostRes.prevCache # EmptyMap

\* C10: Verify on the entry a Store returned is true while the artifact file
\* holds the stored bytes, and false once the file holds any other bytes.
C10_StoreThenVerify ==
    (cacheRes.op = "verify" /\ cacheRes.from = "store" /\ cacheRes.present) =>
        /\ (cacheRes.onDisk = cacheRes.stored => cacheRes.valid)
        /\ (cacheRes.onDisk # cacheRes.stored => ~cacheRes.valid)

\* A Verify of a stored entry whose artifact file was rewritten afterwards
\* with different bytes of the same length.
C10_Witness ==
    /\ cacheRes.op = "verify" /\ cacheRes.from = "store" /\ cacheRes.present
    /\ cacheRes.onDisk # cacheRes.stored
    /\ Len(cacheRes.onDisk) = Len(cacheRes.stored)
    /\ ~cacheRes.valid

\* A Verify of a stored entry whose artifact file is as stored.
C10_WitnessIntact ==
    /\ cacheRes.op = "verify" /\ cacheRes.from = "store" /\ cacheRes.present
    /\ cacheRes.onDisk = cacheRes.stored
    /\ cacheRes.valid

\* The cache of disk d holds an intact copy of the artifact of plugin p: the
\* artifact file, and a metadata file that parses and records the file's hash.
Intact(d, p) ==
    /\ CachePath(p, CacheDir) \in DOMAIN d
    /\ MetadataPath(p, CacheDir) \in DOMAIN d
    /\ IsJson(d[MetadataPath(p, CacheDir)])
    /\ d[MetadataPath(p, CacheDir)].json.SHA256 = Sum256(d[CachePath(p, CacheDir)].bytes)

C14_SessionsClosedBeforeRuntime ==
    (phase = "stopped" /\ hostClosed) => rpcOpen = {}

\* C13: a call pending on a session whose background task has exited with
\* a non-zero code is eventually resolved, to a session error or by its
\* caller's deadline; it does not stay pending forever.
C13_PendingResolves ==
    \A k \in 1..MaxFwd :
        (k \in DOMAIN fwd /\ fwd[k].state = "pending"
            /\ hostSessions[fwd[k].sess].task = "exitN")
        ~> (k \in DOMAIN fwd /\ fwd[k].state \in {"sessionError", "cancelled"})

\* A step of the reader that read a message whose id is in the table while
\* that id's channel had room.
ReaderMatched ==
    /\ inSeq' = inSeq + 1
    /\ rdr'.msg.id \in DOMAIN pendingRequests
    /\ pendingRequests[rdr'.msg.id] = <<>>

\* A step in which call c leaves its select, and one in which it returns.
LeavesSelect(c) == callers[c].pc = "select" /\ callers'[c].pc = "return"

Returns(c) == callers[c].pc = "return" /\ callers'[c].pc = "done"

\* What the steps of the bridge keep, whatever the extension sends: a
\* channel holds at most one message, one carrying its own id; a reader
\* step on a matching id with room in the channel changes the table in
\* that channel alone; a call with an empty channel leaves its select with
\* the timeout error; a returning call takes its own entry out of the
\* table and, after a timeout, leaves the reader and the written stream
\* as they were.
BridgeStepsSafe ==
    /\ [](\A id \in DOMAIN pendingRequests :
             /\ Len(pendingRequests[id]) <= 1
             /\ \A i \in DOMAIN pendingRequests[id] : pendingRequests[id][i].id = id)
    /\ [][/\ ReaderMatched =>
               pendingRequests' = [pendingRequests EXCEPT ![rdr'.msg.id] = <<rdr'.msg>>]
          /\ \A c \in Callers :
               /\ (LeavesSelect(c) /\ pendingRequests[callers[c].id] = <<>>) =>
                      callers'[c].res = [kind |-> "timeout", msg |-> NoMsg]
               /\ Returns(c) =>
                      /\ callers[c].id \in DOMAIN pendingRequests
                      /\ pendingRequests' = Delete(pendingRequests, callers[c].id)
               /\ (Returns(c) /\ callers[c].res.kind = "timeout") =>
                      rdr' = rdr /\ wire' = wire]_vars

\* A response for request n has been read while n was in the table: it is
\* in n's channel, or in the reader's hands for it.
Received(n) ==
    /\ ReqID(n) \in DOMAIN pendingRequests
    /\ \/ pendingRequests[ReqID(n)] # <<>>
       \/ rdr.pc = "send" /\ rdr.msg.id = ReqID(n)

\* C15: a response read for a pending request is delivered to the
\* request's channel, the reader going on to its next message, and the
\* request's entry is removed from the table.
C15_DeliveredAndRemoved ==
    /\ rdr.pc = "send" ~> rdr.pc # "send"
    /\ \A n \in 1..MaxRequests :
           Received(n) ~> (ReqID(n) \notin DOMAIN pendingRequests)

\* C16: a call that waits on an empty channel and gets no response returns
\* (with the timeout error, by BridgeStepsSafe), its entry removed.
C16_NoResponseReturns ==
    \A c \in Callers :
        (callers[c].pc = "select" /\ pendingRequests[callers[c].id] = <<>>)
        ~> \/ callers[c].pc = "done" /\ callers[c].id \notin DOMAIN pendingRequests
           \/ /\ callers[c].id \in DOMAIN pendingRequests
              /\ pendingRequests[callers[c].id] # <<>>

\* C17: on the written stream no Write of another message lies between
\* the length prefix of a message and its payload.
C17_FramesNotInterleaved ==
    \A i, j, k \in DOMAIN wire :
        (/\ i < j /\ j < k
         /\ wire[i].part = "len" /\ wire[k].part = "body"
         /\ wire[i].id = wire[k].id) => wire[j].id = wire[i].id

\* The reader has read frame k of the stream back: it parsed, from the
\* first byte of the frame and over the frame's 4 + L bytes, the message
\* whose frame it is.
ReadBack(k) ==
    \E i \in DOMAIN decoded :
        /\ decoded[i].at = Start(stream, k)
        /\ decoded[i].used = 4 + stream[k].len
        /\ \E m \in Messages :
               stream[k] = WriteNativeMessage(m) /\ decoded[i].msg = m

\* C18: the frame writeNativeMessage produces for a message of at most
\* 1 MiB of JSON, after frames of that kind, is read back by
\* readNativeMessages as the same message, over exactly 4 + L bytes.
C18_RoundTripWithinLimit ==
    \A k \in DOMAIN stream :
        (/\ \A j \in 1..k : stream[j].len <= MaxMessageSize
         /\ frd.pos >= Start(stream, k + 1)) => ReadBack(k)

C18_Witness ==
    /\ Len(stream) = 2
    /\ stream[1].len = MaxMessageSize
    /\ stream[2].len = 2
    /\ frd.pos = (4 + MaxMessageSize) + (4 + 2)
    /\ ReadBack(1) /\ ReadBack(2)
    /\ Len(decoded) = 2

\* C18 as stated, for every message: whatever the size of its JSON.
C18_RoundTripEveryMessage ==
    \A k \in DOMAIN stream :
        (Len(stream) = 1 /\ frd.pos >= Start(stream, k + 1)) => ReadBack(k)

\* C19: nothing is parsed out of the bytes of a frame whose declared
\* length is over the maximum, and every frame within the maximum that the
\* reader has gone past was read back from its own first byte.
C19_OversizeRejectedInPlace ==
    \A k \in DOMAIN stream :
        /\ stream[k].len > MaxMessageSize =>
               \A i \in DOMAIN decoded :
                   ~(Start(stream, k) <= decoded[i].at
                        /\ decoded[i].at < Start(stream, k + 1))
        /\ (stream[k].len <= MaxMessageSize /\ frd.pos > Start(stream, k)) =>
               ReadBack(k)

\* A string beginning with a local-path prefix.
IsLocalPath(s) == HasPrefix(s, <<".", "/">>) \/ HasPrefix(s, <<"/">>)

\* s is the registry's base URL, "/", a version v, "/plugin-", a name n and
\* ".wasm", v and n not empty and without "/".
IsArtifactOf(s, v, n) ==
    /\ s = GCSBaseURL \o <<"/">> \o v \o <<"/", "plugin-">> \o n \o <<".wasm">>
    /\ v # <<>> /\ n # <<>>
    /\ \A i \in DOMAIN v : v[i] # "/"
    /\ \A i \in DOMAIN n : n[i] # "/"

IsArtifactURL(s) ==
    \E i, j \in DOMAIN s :
        i <= j /\ \E k \in DOMAIN s :
            j + 2 < k /\ IsArtifactOf(s, SubSeq(s, i, j), SubSeq(s, j + 3, k - 1))

\* A URL with scheme http or https.
IsHTTPURL(s) == ~UrlParse(s).err /\ UrlParse(s).scheme \in {<<"http:">>, <<"https:">>}

\* C20: ParsePluginSource gives a source string one outcome, by the first
\* of these that applies: a local-path prefix makes it a local file; the
\* versioned-artifact pattern makes it a registry artifact with the
\* version and name of the URL; scheme http or https makes it a remote
\* HTTP endpoint; anything else is an error.
C20_PriorityOrder ==
    pres # NotParsed =>
        /\ pres.RawURL = psrc
        /\ IF IsLocalPath(psrc)
           THEN ~pres.err /\ pres.Type = PluginTypeLocal /\ pres.Name = Base(psrc)
           ELSE IF IsArtifactURL(psrc)
           THEN /\ ~pres.err /\ pres.Type = PluginTypeWASM
                /\ IsArtifactOf(psrc, pres.Version, pres.Name)
           ELSE IF IsHTTPURL(psrc)
           THEN ~pres.err /\ pres.Type = PluginTypeHTTP
           ELSE pres.err /\ pres.Type = None

C20_Witness ==
    /\ psrc = GCSBaseURL \o <<"/", "v1", "/", "plugin-", "hello", ".wasm">>
    /\ IsHTTPURL(psrc)
    /\ pres.Type = PluginTypeWASM
    /\ pres.Version = <<"v1">> /\ pres.Name = <<"hello">>

\* The reader waits, with b.mu held, to send on the channel of a call that
\* has left its select and waits for b.mu to run its deferred delete.
ReaderAndCallerWait ==
    /\ rdr.pc = "send"
    /\ \E c \in Callers : callers[c].pc = "return" /\ callers[c].id = rdr.msg.id

\* C27: the bridge never deadlocks: in no interleaving of the reader with
\* sendCommand calls does the reader wait with the mutex held for a call
\* that itself waits for the mutex.
C27_NeverDeadlocks == ~ReaderAndCallerWait

\* A reader step on a message whose id is not a key of the table.
ReaderUnmatched ==
    /\ inSeq' = inSeq + 1
    /\ rdr'.msg.id \notin DOMAIN pendingRequests

\* C26: a message read with an id that matches no pending request leaves
\* the table as it was (no entry added, removed or filled), leaves every
\* call where it was, and is in no channel afterwards; the reader goes on
\* to read.
C26_UnmatchedLeavesTable ==
    [][ReaderUnmatched =>
          /\ pendingRequests' = pendingRequests
          /\ callers' = callers
          /\ rdr'.pc = "read"
          /\ \A id \in DOMAIN pendingRequests' :
                 \A i \in DOMAIN pendingRequests'[id] :
                     pendingRequests'[id][i] # rdr'.msg]_vars

\* A message with the never issued id req-2 has been read while the call
\* of req-1 waits in its select on an empty channel.
C26_Witness ==
    /\ requestID = 1
    /\ rdr.msg.id = ReqID(2)
    /\ rdr.pc = "read"
    /\ \E c \in Callers : callers[c].pc = "select" /\ callers[c].id = ReqID(1)
    /\ pendingRequests[ReqID(1)] = <<>>

\* The calls that have registered a request.
Issued == {c \in Callers : callers[c].id # NoID}

\* C28: a call returns only a response that carries the id the call
\* registered; the ids of two calls differ; every registration takes the
\* next number of the counter, above the number of every earlier request,
\* so no id is issued twice; a message in a channel carries the channel's
\* id.
C28_ResponseOnlyToIssuer ==
    /\ [](/\ \A c \in Issued :
                /\ callers[c].res.kind = "response" => callers[c].res.msg.id = callers[c].id
                /\ \E n \in 1..requestID : callers[c].id = ReqID(n)
                /\ \A d \in Issued : d # c => callers[d].id # callers[c].id
          /\ \A id \in DOMAIN pendingRequests :
                /\ \E n \in 1..requestID : id = ReqID(n)
                /\ \A i \in DOMAIN pendingRequests[id] : pendingRequests[id][i].id = id)
    /\ [][\A c \in Callers :
              callers'[c].id # callers[c].id =>
                  /\ requestID' = requestID + 1
                  /\ callers'[c].id = ReqID(requestID')
                  /\ callers'[c].id \notin DOMAIN pendingRequests]_vars

\* The call of req-1 has returned with the timeout error and its entry is
\* gone, the call of req-2 holds the first message read, which carries
\* req-2, and the second message read carries req-1: no call holds it.
C28_Witness ==
    /\ inSeq = 2
    /\ rdr.msg = [id |-> ReqID(1), seq |-> 2]
    /\ ReqID(1) \notin DOMAIN pendingRequests
    /\ \E c, d \in Callers :
          /\ callers[c] = [pc |-> "done", id |-> ReqID(1),
                           res |-> [kind |-> "timeout", msg |-> NoMsg]]
          /\ callers[d].id = ReqID(2)
          /\ callers[d].res = [kind |-> "response", msg |-> [id |-> ReqID(2), seq |-> 1]]

\* The registry artifacts among the source strings, parsed.
ParsedArtifacts ==
    {ParsePluginSource(s) :
        s \in {x \in SourceStrings : PluginURLMatch(x).ok /\ ~IsLocalPath(x)}}

\* C30: two registry artifacts that differ in name or version have
\* different cache paths and different metadata paths.
C30_DistinctPaths ==
    (pres # NotParsed /\ pres.Type = PluginTypeWASM) =>
        \A q \in ParsedArtifacts :
            <<q.Name, q.Version>> # <<pres.Name, pres.Version>> =>
                /\ CachePath(q, CacheDir) # CachePath(pres, CacheDir)
                /\ MetadataPath(q, CacheDir) # MetadataPath(pres, CacheDir)

\* The answer of the client's VerifyCache call: false, without an error.
VerifySaysFalse == ~cacheRes.valid /\ ~cacheRes.err

\* C25: VerifyCache answers false, and returns no error, for an entry
\* without metadata and for an entry whose file has another SHA-256 than
\* the one its metadata records.
C25_MismatchIsFalse ==
    cacheRes.op = "verify" =>
        /\ held.Metadata = NilMetadata => VerifySaysFalse
        /\ (/\ held.Metadata # NilMetadata
            /\ cacheRes.present
            /\ Sum256(cacheRes.onDisk) # held.Metadata.SHA256) => VerifySaysFalse

\* VerifyCache has answered for an entry whose file was rewritten after
\* its metadata was recorded.
C25_Witness ==
    /\ cacheRes.op = "verify"
    /\ held.Metadata # NilMetadata
    /\ cacheRes.present
    /\ Sum256(cacheRes.onDisk) # held.Metadata.SHA256
    /\ VerifySaysFalse

\* VerifyCache has answered for an entry without metadata.
C25_WitnessNoMetadata ==
    /\ cacheRes.op = "verify"
    /\ held # NilEntry
    /\ held.Metadata = NilMetadata
    /\ VerifySaysFalse

\* The bytes in hand are those of the cached artifact file, and the
\* entry's metadata records their hash: VerifyCache has accepted them.
FromVerifiedCache ==
    /\ bstate[idx] = "Cached"
    /\ entry # NilEntry /\ entry.Metadata # NilMetadata
    /\ entry.WASMPath = CachePath(CurParsed, CacheDir)
    /\ entry.WASMPath \in DOMAIN disk
    /\ wasmBytes = disk[entry.WASMPath].bytes
    /\ Sum256(wasmBytes) = entry.Metadata.SHA256
    /\ [backend |-> idx, stage |-> "verify"] \notin errors
    /\ \A k \in DOMAIN fetchLog : fetchLog[k].backend # idx

\* The bytes in hand are the body of this resolution's download.
FromDownload ==
    /\ bstate[idx] = "Downloaded"
    /\ entry = NilEntry
    /\ fetchLog # <<>>
    /\ fetchLog[Len(fetchLog)] = [url |-> RegistryURL(CurParsed), backend |-> idx]
    /\ wasmBytes \in RegistryContents

\* C29: the bytes handed to LoadModule for a registry artifact, and the
\* code of the module that is then run, are cached bytes that VerifyCache
\* accepted in this resolution or the bytes this resolution downloaded;
\* after a failed verification they are the downloaded ones.
C29_LoadedBytesVerifiedOrDownloaded ==
    (/\ phase = "loading" /\ stage \in {"load", "run"}
     /\ ~Cur.IsCloud /\ CurParsed.Type = PluginTypeWASM) =>
        /\ FromVerifiedCache \/ FromDownload
        /\ [backend |-> idx, stage |-> "verify"] \in errors => FromDownload
        /\ stage = "run" =>
               /\ CurName \in DOMAIN hostCache
               /\ hostCache[CurName] = [code |-> wasmBytes]

\* The cached artifact file no longer matches its recorded hash: the
\* verification failed, and the module about to run holds the downloaded
\* bytes, not the file's.
C29_Witness ==
    /\ phase = "loading" /\ stage = "run"
    /\ ~Cur.IsCloud /\ CurParsed.Type = PluginTypeWASM
    /\ [backend |-> idx, stage |-> "verify"] \in errors
    /\ FromDownload
    /\ hostCache[CurName] = [code |-> wasmBytes]
    /\ wasmBytes # <<"m">>

\* The module about to run holds cached bytes that VerifyCache accepted.
C29_WitnessCached ==
    /\ phase = "loading" /\ stage = "run"
    /\ FromVerifiedCache
    /\ hostCache[CurName] = [code |-> wasmBytes]

\* The place of a setup state in the order of setup.
Rank(st) ==
    CASE st = "Unresolved" -> 0
      [] st = "SourceResolved" -> 1
      [] st \in {"LocalRead", "Cached", "Downloaded"} -> 2
      [] st = "SessionOpen" -> 3
      [] st = "CatalogFetched" -> 4
      [] st = "ToolsRegistered" -> 5

\* Backend b has no artifact to obtain: it is an HTTP endpoint, declared
\* locally or fetched from mcper-cloud.
NeedsNoArtifact(b) ==
    config[b].IsCloud \/ ParsePluginSource(config[b].Source).Type = PluginTypeHTTP

\* C24: a backend's setup state changes only to the next one in the order
\* Unresolved, SourceResolved, artifact in hand (read, cached or
\* downloaded), SessionOpen, CatalogFetched, ToolsRegistered, a backend
\* reached over HTTP going from SourceResolved straight to SessionOpen; and
\* every tool registered on the server in a step belongs to the listing
\* of a backend whose session is open and whose ListTools has succeeded.
C24_SetupOrder ==
    /\ [][\A b \in DOMAIN bstate :
             bstate'[b] # bstate[b] =>
                 \/ Rank(bstate'[b]) = Rank(bstate[b]) + 1 /\ (Rank(bstate[b]) = 1 => ~NeedsNoArtifact(b))
                 \/ /\ bstate[b] = "SourceResolved" /\ bstate'[b] = "SessionOpen"
                    /\ NeedsNoArtifact(b)]_vars
    /\ [][\A k \in DOMAIN regLog' :
             k \notin DOMAIN regLog =>
                 LET b == regLog'[k].backend
                 IN /\ bstate[b] = "CatalogFetched"
                    /\ b \in rpcOpen
                    /\ b \in DOMAIN catalog
                    /\ \E i \in DOMAIN catalog[b] : catalog[b][i] = regLog'[k].tool]_vars

\* A registry artifact was downloaded for backend 1, its session opened,
\* its tools listed and registered.
C24_Witness ==
    /\ bstate # EmptyMap /\ bstate[1] = "ToolsRegistered"
    /\ ParsePluginSource(config[1].Source).Type = PluginTypeWASM
    /\ \E k \in DOMAIN fetchLog : fetchLog[k].backend = 1
    /\ 1 \in rpcOpen
    /\ \E k \in DOMAIN regLog : regLog[k].backend = 1

\* ------------------------------------------------------------------
\* pkg/mcper/credentials.go: IsValid, SaveCredentialsToPath and
\* LoadCredentialsFromPath.  Times are whole minutes; 0 is the zero
\* time.Time.  A string is a sequence of tokens: "xFF" is a byte that is
\* not valid UTF-8, "uFFFD" the Unicode replacement rune, "<" a character
\* that encoding/json writes as an escape.
\* ------------------------------------------------------------------
MaxNow == 2

MaxExpiry == 8

FiveMinutes == 5

IsZero(t) == t = 0

\* Credentials.IsValid at time t.
IsValid_nobuffer(c, t) ==
    IF c = NilCreds THEN FALSE
    ELSE IF c.APIKey = <<>> THEN FALSE
    ELSE IF ~IsZero(c.ExpiresAt) /\ c.ExpiresAt < t THEN FALSE
    ELSE TRUE

IsValid(c, t) ==
    IF c = NilCreds THEN FALSE
    ELSE IF c.APIKey = <<>> THEN FALSE
    ELSE IF ~IsZero(c.ExpiresAt) /\ c.ExpiresAt < t + FiveMinutes THEN FALSE
    ELSE TRUE

\* encoding/json on a string: Marshal writes "<" as a six-character
\* escape and every byte that is not valid UTF-8 as the escape of the
\* replacement rune U+FFFD; Unmarshal reads each escape as the rune it
\* names.
EscapeToken(t) ==
    CASE t = "<" -> "\\u003c"
      [] t = "xFF" -> "\\ufffd"
      [] OTHER -> t

UnescapeToken(t) ==
    CASE t = "\\u003c" -> "<"
      [] t = "\\ufffd" -> "uFFFD"
      [] OTHER -> t

EncodeString(str) == [i \in DOMAIN str |-> EscapeToken(str[i])]

DecodeString(js) == [i \in DOMAIN js |-> UnescapeToken(js[i])]

\* time.Time as RFC 3339 text, and back.
FormatTime(t) == <<"rfc3339", t>>

ParseTime(x) == x[2]

\* json.MarshalIndent(creds): the text of the file.
MarshalIndent(c) ==
    IF c = NilCreds THEN [kind |-> "null"]
    ELSE [kind |-> "object",
          api_key |-> EncodeString(c.APIKey),
          user_email |-> EncodeString(c.UserEmail),
          user_id |-> EncodeString(c.UserID),
          cloud_url |-> EncodeString(c.CloudURL),
          expires_at |-> FormatTime(c.ExpiresAt)]

\* A file that is not JSON: cut short, or empty.
Garbage == [kind |-> "garbage"]

\* json.Unmarshal(data, &creds) into a zero Credentials: [err, creds].
UnmarshalCreds(text) ==
    CASE text.kind = "object" ->
           [err |-> FALSE,
            creds |-> [APIKey |-> DecodeString(text.api_key),
                       UserEmail |-> DecodeString(text.user_email),
                       UserID |-> DecodeString(text.user_id),
                       CloudURL |-> DecodeString(text.cloud_url),
                       ExpiresAt |-> ParseTime(text.expires_at)]]
      [] text.kind = "null" -> [err |-> FALSE, creds |-> ZeroCreds]
      [] OTHER -> [err |-> TRUE, creds |-> ZeroCreds]

\* What the file system answers to one SaveCredentialsToPath.
CredSaveOutcomes == {"ok", "mkdirFail", "openFail", "writeFail"}

\* SaveCredentialsToPath(creds, path) on file f: [err, file].
SaveCredentialsToPath(f, c, io) ==
    CASE io = "ok" -> [err |-> None, file |-> MarshalIndent(c)]
      [] io = "writeFail" -> [err |-> "write", file |-> Garbage]
      [] io = "openFail" -> [err |-> "write", file |-> f]
      [] OTHER -> [err |-> "mkdir", file |-> f]

\* LoadCredentialsFromPath(path) on file f: [err, creds].
LoadCredentialsFromPath(f, readOK) ==
    IF f = NoFile THEN [err |-> "not logged in", creds |-> NilCreds]
    ELSE IF ~readOK THEN [err |-> "read", creds |-> NilCreds]
    ELSE LET u == UnmarshalCreds(f)
         IN IF u.err THEN [err |-> "parse", creds |-> NilCreds]
            ELSE [err |-> None, creds |-> u.creds]

\* The credentials a caller may hold.
APIKeys == {<<>>, <<"key">>, <<"key", "<">>, <<"key", "xFF">>}

UserEmails == {<<>>, <<"a@b">>}

UserIDs == {<<"u1">>, <<"u1", "xFF">>}

CloudURLs == {<<"https://api.mcper.com">>}

CredsValues ==
    [APIKey : APIKeys, UserEmail : UserEmails, UserID : UserIDs, CloudURL : CloudURLs,
     ExpiresAt : 0..MaxExpiry]

UtilIdleRest ==
    UNCHANGED <<hostVars, hostClient, cacheVars, cacheClient, serveVars, sessVars,
                bridgeVars, frameVars, parseVars>>

\* The caller saves the credentials it holds.
SaveCall ==
    /\ \E io \in CredSaveOutcomes :
         LET r == SaveCredentialsToPath(credFile, credsIn, io)
         IN /\ credFile' = r.file
            /\ saveOK' = (r.err = None)
    /\ UNCHANGED <<credsIn, loaded, now, isValid, urlCalls>>
    /\ UtilIdleRest

\* The caller loads from the path.
LoadCall ==
    /\ \E readOK \in BOOLEAN :
         LET r == LoadCredentialsFromPath(credFile, readOK)
         IN loaded' = [called |-> TRUE, err |-> r.err, creds |-> r.creds]
    /\ UNCHANGED <<credsIn, credFile, saveOK, now, isValid, urlCalls>>
    /\ UtilIdleRest

\* The caller asks whether the credentials it holds are valid.
IsValidCall ==
    /\ isValid' = [called |-> TRUE, valid |-> IsValid(credsIn, now), at |-> now]
    /\ UNCHANGED <<credsIn, credFile, saveOK, loaded, now, urlCalls>>
    /\ UtilIdleRest

\* A minute passes.
Tick ==
    /\ now < MaxNow
    /\ now' = now + 1
    /\ UNCHANGED <<credsIn, credFile, saveOK, loaded, isValid, urlCalls>>
    /\ UtilIdleRest

InitCredsSpec ==
    /\ InitHost /\ disk = EmptyMap /\ InitCacheClient /\ InitServeIdle /\ InitSessIdle
    /\ InitBridge("off") /\ InitFrame /\ InitParse(<<>>)
    /\ \E c \in CredsValues \cup {NilCreds}, f \in {NoFile, Garbage} : InitUtil(c, f, 1)

NextCreds == SaveCall \/ LoadCall \/ IsValidCall \/ Tick

SpecCreds == InitCredsSpec /\ [][NextCreds]_vars

\* ------------------------------------------------------------------
\* pkg/mcper/plugin.go: PluginURL.
\* ------------------------------------------------------------------
MaxURLCalls == 3

\* A resolver that remembers the version it was last asked for.
PluginURL_sticky(name, version) ==
    LET v == IF version # <<>> THEN version
             ELSE IF urlCalls = <<>> THEN <<"latest">>
             ELSE urlCalls[Len(urlCalls)].version
    IN GCSBaseURL \o <<"/">> \o v \o <<"/", "plugin-">> \o name \o <<".wasm">>

PluginURL(name, version) ==
    LET v == IF version = <<>> THEN <<"latest">> ELSE version
    IN GCSBaseURL \o <<"/">> \o v \o <<"/", "plugin-">> \o name \o <<".wasm">>

PluginNames == {<<"hello">>, <<"a">>}

PluginVersions == {<<>>, <<"v1">>, <<"latest">>}

\* A caller calls PluginURL(name, version).
PluginURLCall ==
    /\ Len(urlCalls) < MaxURLCalls
    /\ \E n \in PluginNames, v \in PluginVersions :
         urlCalls' = Append(urlCalls, [name |-> n, version |-> v, url |-> PluginURL(n, v)])
    /\ UNCHANGED <<credsIn, credFile, saveOK, loaded, now, isValid>>
    /\ UtilIdleRest

NextURL == PluginURLCall

InitURLSpec ==
    InitHost /\ disk = EmptyMap /\ InitCacheClient /\ InitServeIdle /\ InitExtIdle

SpecURL == InitURLSpec /\ [][NextURL]_vars

C22_IsValidExactly ==
    isValid.called =>
        (isValid.valid <=>
            /\ credsIn # NilCreds
            /\ credsIn.APIKey # <<>>
            /\ \/ credsIn.ExpiresAt = 0
               \/ credsIn.ExpiresAt >= isValid.at + 5)

\* IsValid has answered true for credentials that expire exactly five
\* minutes after the call.
C22_Witness ==
    /\ isValid.called /\ isValid.valid
    /\ credsIn # NilCreds
    /\ credsIn.ExpiresAt = isValid.at + 5

\* IsValid has answered false for credentials with a key that expire four
\* minutes after the call.
C22_WitnessInsideMargin ==
    /\ isValid.called /\ ~isValid.valid
    /\ credsIn # NilCreds /\ credsIn.APIKey # <<>>
    /\ credsIn.ExpiresAt = isValid.at + 4

\* C23: credentials loaded from the path they were saved to have the API
\* key, user email, user id and cloud URL that were saved.
C23_SaveLoadRoundTrip ==
    (/\ credsIn # NilCreds /\ saveOK
     /\ loaded.called /\ loaded.err = None
     /\ credFile = MarshalIndent(credsIn)) =>
        /\ loaded.creds.APIKey = credsIn.APIKey
        /\ loaded.creds.UserEmail = credsIn.UserEmail
        /\ loaded.creds.UserID = credsIn.UserID
        /\ loaded.creds.CloudURL = credsIn.CloudURL
====
